---- MODULE Spec2Model ----
(***************************************************************************)
(* rdio-scanner: the live-feed session engine, the query service and the   *)
(* ingestion front (spec.md sections 4.A-4.H), the schema bootstrap of     *)
(* src/server/database.go and the listener client of                       *)
(* src/client/.../rdio-scanner.service.ts, as state machines over one set  *)
(* of variables, each with its own specification.                          *)
(***************************************************************************)
EXTENDS Integers, Sequences, FiniteSets, TLC

(***************************************************************************)
(* Bounds of the model.                                                    *)
(***************************************************************************)
MaxCalls == 2
QueueCap == 2
MaxRequests == 1
LimitA == 1

(***************************************************************************)
(* The session engine.  The server sources are not part of src/: this part *)
(* follows spec.md sections 3, 4.B, 4.C, 4.D, 4.E and 5.                   *)
(***************************************************************************)
VARIABLES
    sessState,   \* session -> NONE | UNAUTHENTICATED | AUTHENTICATED | READY | CLOSED
    sessCode,    \* session -> credential code the session is bound to ("" if none)
    sessLfm,     \* session -> [attached, map]: the session's LivefeedMap snapshot
    outQ,        \* session -> bounded outbound queue of frames
    dropMark,    \* session -> marked for drop by an overflowing enqueue
    closing,     \* session -> the reader has finished; the writer flushes and closes
    lastSent,    \* session -> tag of the last frame its writer wrote to the transport ("" if none)
    lastLive,    \* session -> id of the last live CAL its writer wrote (0 if none)
    registry,    \* admission registry: the admitted live sessions
    expired,     \* credential codes whose expiration instant has passed
    calls,       \* the store: stored calls, calls[i].id = i
    cur,         \* id of the call being fanned out (0 if none)
    todo,        \* sessions the current fan-out has still to visit
    visiting,    \* session whose filter snapshot the fan-out has loaded (0 if none)
    snap,        \* the filter snapshot loaded for that session
    nRequests    \* inbound CAL requests so far

serverVars == <<sessState, sessCode, sessLfm, outQ, dropMark, closing, lastSent,
                lastLive, registry, expired, calls, cur, todo, visiting, snap,
                nRequests>>

VARIABLES
    dbType,      \* Config.DbType
    store,       \* the database: Meta table, its names, the schema, the seeded tables
    pc,          \* position of NewDatabase: idle | prepare | migrate | seed | returned | fatal
    nextMig,     \* index in migrate() of the migration to be attempted next
    attempted,   \* migrations attempted by the current run
    seedRan,     \* the current run has called seed()
    last,        \* the last migration call: its index, what happened, its result
    firstOk,     \* schema and Meta as the first run that returned left them
    runs, failures

dbVars == <<dbType, store, pc, nextMig, attempted, seedRan, last, firstOk, runs, failures>>

VARIABLES
    config,        \* the client's config.systems: system id -> ids of its talkgroups
    livefeedMap,   \* the client's livefeedMap: system id -> talkgroup id -> active
    priorSys,      \* livefeedMapPriorToHoldSystem
    priorTg,       \* livefeedMapPriorToHoldTalkgroup
    timers,        \* the entries of livefeedMap whose avoid timer is armed
    due,           \* the entries avoided for some minutes that have not elapsed
    callQueue,     \* the client's queue of calls waiting to be played
    call,          \* the call being played (NoCall if none)
    callPrevious,  \* the call played before
    livefeedMode,  \* offline | online | playback
    playbackPending,     \* id requested by loadAndPlay (0 if none)
    playbackList,        \* the last LCL reply
    playbackRefreshing,
    playbackGoesLive,    \* config.playbackGoesLive
    websocket,     \* none | connecting | open | closed
    reconnecting,  \* the timer of onclose is armed
    destroyed,     \* ngOnDestroy has run
    sent,          \* the frames the last handler handed to the socket
    downloaded     \* id of the call the last handler downloaded (0 if none)

clientVars == <<config, livefeedMap, priorSys, priorTg, timers, due, callQueue, call,
                callPrevious, livefeedMode, playbackPending, playbackList,
                playbackRefreshing, playbackGoesLive, websocket, reconnecting, destroyed,
                sent, downloaded>>

VARIABLES
    archive,     \* the calls the query service searches, archive[i].id = i
    walk         \* the pages a listener has asked for, one after the other

queryVars == <<archive, walk>>

VARIABLES
    catalog,     \* the schema of the database: its tables, their columns, the indexes
    meta,        \* the migrations recorded in rdioScannerMeta
    at,          \* position of the start: its phase, the migration, the statement
    unknown,     \* what the statements executed so far referred to that did not exist
    unread,      \* what a query whose error is ignored referred to that did not exist
    groupRows,   \* the labels of the rows of rdioScannerGroups
    tagRows,     \* the labels of the rows of rdioScannerTags
    starts       \* number of starts of the server so far

schemaVars == <<catalog, meta, at, unknown, unread, groupRows, tagRows, starts>>

VARIABLES
    known,       \* the Systems of the configuration: id -> autoPopulate, blacklists, talkgroups
    persisted,   \* the calls the ingestion front has persisted, in order
    notified,    \* the ids of the calls passed to dispatcher.notifyCall, in order
    scheduled,   \* <<downstream, id>>: forwards the ingestion front has scheduled
    answer,      \* the answer to the last submission, with the submission
    submitted    \* number of submissions so far

ingestVars == <<known, persisted, notified, scheduled, answer, submitted>>

VARIABLES
    player       \* the audio side of the client: call, callPrevious, callQueue, audioSource,
                 \* the sources started and not stopped, the fetches and decodes under
                 \* way, livefeedPaused, skipDelay, livefeedMode, the calls that arrived

audioVars == <<player>>

vars == <<serverVars, dbVars, clientVars, queryVars, schemaVars, ingestVars, audioVars>>

\* what each part of the system leaves alone
notServer == <<dbVars, clientVars, queryVars, schemaVars, ingestVars, audioVars>>
notDb == <<serverVars, clientVars, queryVars, schemaVars, ingestVars, audioVars>>
notClient == <<serverVars, dbVars, queryVars, schemaVars, ingestVars, audioVars>>
notQuery == <<serverVars, dbVars, clientVars, schemaVars, ingestVars, audioVars>>
notSchema == <<serverVars, clientVars, queryVars, ingestVars, audioVars>>
notIngest == <<serverVars, dbVars, clientVars, queryVars, schemaVars, audioVars>>
notAudio == <<serverVars, dbVars, clientVars, queryVars, schemaVars, ingestVars>>

\* the transport connections accepted in the model, numbered in order of acceptance
Sessions == {1, 2}
SystemIds == {1, 2}
TalkgroupIds == {1, 2}
Pairs == SystemIds \X TalkgroupIds

\* AccessCredential.systems: the sentinel "*" (star) or systemId -> "*" | [talkgroupId,...]
AllowAll == [star |-> TRUE, list |-> [sys \in {} |-> [star |-> FALSE, tgs |-> {}]]]

AllowSys1Tg2 == [star |-> FALSE, list |-> [sys \in {1} |-> [star |-> FALSE, tgs |-> {2}]]]

\* limit 0 stands for "no limit set"
Credentials ==
    [c \in {"A", "B"} |->
        IF c = "A" THEN [limit |-> LimitA, expiration |-> FALSE, systems |-> AllowAll]
                   ELSE [limit |-> 0, expiration |-> TRUE, systems |-> AllowSys1Tg2]]

PresentedCodes == {"A", "B", "X"}

\* the flag of an inbound CAL request ("p": play)
Flags == {"p"}

\* allows(sys, tg) = (list == "*") \/ (sys \in list /\ (list[sys] == "*" \/ tg \in list[sys]))
Allows(list, sys, tg) ==
    \/ list.star
    \/ /\ sys \in DOMAIN list.list
       /\ \/ list.list[sys].star
          \/ tg \in list.list[sys].tgs

NoCall == [id |-> 0, system |-> 0, talkgroup |-> 0, patches |-> {}]

Shape(sys, tg, patches) == [id |-> 0, system |-> sys, talkgroup |-> tg, patches |-> patches]

\* the submissions ingested in the model: a patched call of system 1, a call of system 2
CallShapes == {Shape(1, 1, {2}), Shape(2, 1, {})}

Frame(tag, c, flag, live) == [tag |-> tag, call |-> c, flag |-> flag, live |-> live]

Ctl(tag) == Frame(tag, NoCall, "", FALSE)

\* LivefeedMap: {systemId -> {talkgroupId -> active}}, as a map over the pairs it holds
EmptyMap == [p \in {} |-> FALSE]

Detached == [attached |-> FALSE, map |-> EmptyMap]

\* the LFM payload clients send in the model: talkgroup 1 of system 1 off, the rest on,
\* no entry for talkgroup 2 of system 2
LfmPayloads == { [p \in {<<1, 1>>, <<1, 2>>, <<2, 1>>} |-> p # <<1, 1>>] }

\* Missing entries are treated as inactive.
LfmActive(snapshot, sys, tg) ==
    /\ <<sys, tg>> \in DOMAIN snapshot.map
    /\ snapshot.map[<<sys, tg>>]

Permission(s) == Credentials[sessCode[s]].systems

\* The filter: the credential allow-list intersected with the LivefeedMap.
FilterAllows(list, snapshot, sys, tg) == Allows(list, sys, tg) /\ LfmActive(snapshot, sys, tg)

MatchesNoLfm(list, snapshot, c) ==
    \E tg \in {c.talkgroup} \cup c.patches : Allows(list, c.system, tg)

Matches(list, snapshot, c) ==
    \E tg \in {c.talkgroup} \cup c.patches : FilterAllows(list, snapshot, c.system, tg)

\* Entries disallowed by the credential are silently dropped.
FilterPayload(list, payload) ==
    [p \in {q \in DOMAIN payload : Allows(list, q[1], q[2])} |-> payload[p]]

\* An enqueue on a bounded queue never blocks: a full queue marks the session for drop.
EnqueueUnbounded(st, f) ==
    IF st.drop THEN st ELSE [st EXCEPT !.q = Append(@, f)]

EnqueueAtHead(st, f) ==
    IF st.drop THEN st
    ELSE IF Len(st.q) >= QueueCap THEN [st EXCEPT !.drop = TRUE]
    ELSE [st EXCEPT !.q = <<f>> \o @]

Enqueue(st, f) ==
    IF st.drop THEN st
    ELSE IF Len(st.q) >= QueueCap THEN [st EXCEPT !.drop = TRUE]
    ELSE [st EXCEPT !.q = Append(@, f)]

Out(s) == [q |-> outQ[s], drop |-> dropMark[s]]

SetOut(s, st) ==
    /\ outQ' = [outQ EXCEPT ![s] = st.q]
    /\ dropMark' = [dropMark EXCEPT ![s] = st.drop]

\* A session reader handles inbound frames until it closes or the session is closed.
Reading(s) == sessState[s] \in {"UNAUTHENTICATED", "AUTHENTICATED", "READY"} /\ ~closing[s]

\* a session that never looks at the expiration of its credential
CredentialNeverExpired(s) == FALSE

CredentialExpired(s) == sessCode[s] \in expired

SendNoClose(s, tag) ==
    /\ SetOut(s, Enqueue(Out(s), Ctl(tag)))
    /\ UNCHANGED closing

\* AuthError: send XPR, close.  AdmissionError: send MAX, close.
SendAndClose(s, tag) ==
    /\ SetOut(s, Enqueue(Out(s), Ctl(tag)))
    /\ closing' = [closing EXCEPT ![s] = TRUE]

LiveCount(code) == Cardinality({t \in registry : sessCode[t] = code})

\* The dispatcher's session table holds the sessions that are READY.
Registered(s) == Reading(s) /\ sessState[s] = "READY"

MayRequestAnyState(s) == Reading(s)

\* In READY: subscription / search / ping.
MayRequest(s) == Reading(s) /\ sessState[s] = "READY"

ServerInit ==
    /\ sessState = [s \in Sessions |-> "NONE"]
    /\ sessCode = [s \in Sessions |-> ""]
    /\ sessLfm = [s \in Sessions |-> Detached]
    /\ outQ = [s \in Sessions |-> <<>>]
    /\ dropMark = [s \in Sessions |-> FALSE]
    /\ closing = [s \in Sessions |-> FALSE]
    /\ lastSent = [s \in Sessions |-> ""]
    /\ lastLive = [s \in Sessions |-> 0]
    /\ registry = {}
    /\ expired = {}
    /\ calls = <<>>
    /\ cur = 0
    /\ todo = {}
    /\ visiting = 0
    /\ snap = Detached
    /\ nRequests = 0

\* Open -> UNAUTHENTICATED. Server sends protocol version immediately (written at
\* open, before the session's queue and writer run).
Connect(s) ==
    /\ sessState[s] = "NONE"
    /\ \A t \in Sessions : t < s => sessState[t] # "NONE"
    /\ sessState' = [sessState EXCEPT ![s] = "UNAUTHENTICATED"]
    /\ sessCode' = [sessCode EXCEPT ![s] = ""]
    /\ sessLfm' = [sessLfm EXCEPT ![s] = Detached]
    /\ outQ' = [outQ EXCEPT ![s] = <<>>]
    /\ dropMark' = [dropMark EXCEPT ![s] = FALSE]
    /\ closing' = [closing EXCEPT ![s] = FALSE]
    /\ lastSent' = [lastSent EXCEPT ![s] = "VER"]
    /\ lastLive' = [lastLive EXCEPT ![s] = 0]
    /\ UNCHANGED <<registry, expired, calls, cur, todo, visiting, snap, nRequests>>
    /\ UNCHANGED notServer

\* resolve(credential) -> Permission | Reject{unknown, expired}
Resolve(code) ==
    IF code \notin DOMAIN Credentials THEN "unknown"
    ELSE IF code \in expired THEN "expired"
    ELSE "ok"

\* On inbound PIN: resolve credential. On reject, send XPR and close.
ReceivePin(s, code) ==
    /\ Reading(s)
    /\ sessState[s] = "UNAUTHENTICATED"
    /\ IF Resolve(code) = "ok"
       THEN /\ sessState' = [sessState EXCEPT ![s] = "AUTHENTICATED"]
            /\ sessCode' = [sessCode EXCEPT ![s] = code]
            /\ UNCHANGED <<outQ, dropMark, closing>>
       ELSE /\ SendAndClose(s, "XPR")
            /\ UNCHANGED <<sessState, sessCode>>
    /\ UNCHANGED <<sessLfm, lastSent, lastLive, registry, expired, calls, cur, todo,
                   visiting, snap, nRequests>>
    /\ UNCHANGED notServer

\* admit(permission, session) -> ok | tooMany, serialized under the registry mutex
TooManyOffByOne(code) ==
    /\ Credentials[code].limit > 0
    /\ LiveCount(code) > Credentials[code].limit

TooMany(code) ==
    /\ Credentials[code].limit > 0
    /\ LiveCount(code) >= Credentials[code].limit

\* On accept, attempt admit. If tooMany, send MAX and close. On ok, send PIN ack,
\* send CFG, enter READY.
Admit(s) ==
    /\ Reading(s)
    /\ sessState[s] = "AUTHENTICATED"
    /\ IF TooMany(sessCode[s])
       THEN /\ SendAndClose(s, "MAX")
            /\ UNCHANGED <<sessState, registry>>
       ELSE /\ registry' = registry \cup {s}
            /\ SetOut(s, Enqueue(Enqueue(Out(s), Ctl("PIN")), Ctl("CFG")))
            /\ sessState' = [sessState EXCEPT ![s] = "READY"]
            /\ UNCHANGED closing
    /\ UNCHANGED <<sessCode, sessLfm, lastSent, lastLive, expired, calls, cur, todo,
                   visiting, snap, nRequests>>
    /\ UNCHANGED notServer

\* an LFM handler that keeps the entries the credential does not allow
LfmAppliedUnfiltered(list, payload, isNull) ==
    IF isNull THEN Detached ELSE [attached |-> TRUE, map |-> payload]

\* the LivefeedMap an inbound LFM leaves: the allowed entries of the payload, or detached
LfmApplied(list, payload, isNull) ==
    IF isNull THEN Detached ELSE [attached |-> TRUE, map |-> FilterPayload(list, payload)]

\* In READY, inbound LFM replaces the session's LivefeedMap; LFM null detaches.
ReceiveLfm(s, payload, isNull) ==
    /\ Registered(s)
    /\ IF CredentialExpired(s)
       THEN /\ SendAndClose(s, "XPR")
            /\ UNCHANGED sessLfm
       ELSE /\ sessLfm' = [sessLfm EXCEPT ![s] = LfmApplied(Permission(s), payload, isNull)]
            /\ UNCHANGED <<outQ, dropMark, closing>>
    /\ UNCHANGED <<sessState, sessCode, lastSent, lastLive, registry, expired, calls, cur,
                   todo, visiting, snap, nRequests>>
    /\ UNCHANGED notServer

\* Inbound CAL id flag -> fetch full call; reply CAL call flag (the flag is echoed).
ReceiveCallRequest(s, id, flag) ==
    /\ MayRequest(s)
    /\ id \in 1..Len(calls)
    /\ nRequests < MaxRequests
    /\ nRequests' = nRequests + 1
    /\ IF CredentialExpired(s)
       THEN SendAndClose(s, "XPR")
       ELSE /\ SetOut(s, Enqueue(Out(s), Frame("CAL", calls[id], flag, FALSE)))
            /\ UNCHANGED closing
    /\ UNCHANGED <<sessState, sessCode, sessLfm, lastSent, lastLive, registry, expired, calls,
                   cur, todo, visiting, snap>>
    /\ UNCHANGED notServer

\* Ingestion: persist the call (monotonic id), then call notifyCall, which the singleton
\* dispatcher runs to completion before it accepts the next call.
Ingest(shape) ==
    /\ Len(calls) < MaxCalls
    /\ cur = 0
    /\ calls' = Append(calls, [shape EXCEPT !.id = Len(calls) + 1])
    /\ cur' = Len(calls) + 1
    /\ todo' = Sessions
    /\ UNCHANGED <<sessState, sessCode, sessLfm, outQ, dropMark, closing, lastSent, lastLive,
                   registry, expired, visiting, snap, nRequests>>
    /\ UNCHANGED notServer

\* notifyCall, next session of the table: load its pointer-swapped filter snapshot
\* (no lock is held during matching); a connection that is not in the table is passed.
NotifyLoad(s) ==
    /\ cur # 0
    /\ visiting = 0
    /\ s \in todo
    /\ IF Registered(s)
       THEN /\ visiting' = s
            /\ snap' = sessLfm[s]
            /\ UNCHANGED <<cur, todo>>
       ELSE /\ todo' = todo \ {s}
            /\ cur' = IF todo' = {} THEN 0 ELSE cur
            /\ UNCHANGED <<visiting, snap>>
    /\ UNCHANGED <<sessState, sessCode, sessLfm, outQ, dropMark, closing, lastSent, lastLive,
                   registry, expired, calls, nRequests>>
    /\ UNCHANGED notServer

\* notifyCall, the loaded session: consult the filter snapshot, enqueue CAL if it matches;
\* a full queue marks the session for drop and the fan-out continues.
NotifyVisit(s) ==
    /\ cur # 0
    /\ visiting = s
    /\ visiting' = 0
    /\ snap' = Detached
    /\ todo' = todo \ {s}
    /\ cur' = IF todo' = {} THEN 0 ELSE cur
    /\ IF Registered(s)
       THEN IF CredentialExpired(s)
            THEN SendAndClose(s, "XPR")
            ELSE IF Matches(Permission(s), snap, calls[cur])
                 THEN /\ SetOut(s, Enqueue(Out(s), Frame("CAL", calls[cur], "", TRUE)))
                      /\ UNCHANGED closing
                 ELSE UNCHANGED <<outQ, dropMark, closing>>
       ELSE UNCHANGED <<outQ, dropMark, closing>>
    /\ UNCHANGED <<sessState, sessCode, sessLfm, lastSent, lastLive, registry, expired, calls,
                   nRequests>>
    /\ UNCHANGED notServer

\* a close that leaves the session in the admission registry
CloseSessionKeepSlot(s) ==
    /\ sessState' = [sessState EXCEPT ![s] = "CLOSED"]
    /\ outQ' = [outQ EXCEPT ![s] = <<>>]
    /\ dropMark' = [dropMark EXCEPT ![s] = FALSE]
    /\ closing' = [closing EXCEPT ![s] = FALSE]
    /\ lastSent' = [lastSent EXCEPT ![s] = ""]
    /\ lastLive' = [lastLive EXCEPT ![s] = 0]
    /\ UNCHANGED <<registry, sessCode, sessLfm, expired, calls, cur, todo, visiting, snap,
                   nRequests>>
    /\ UNCHANGED notServer

\* Closing a session discards its writer queue and releases its admission slot.
CloseSession(s) ==
    /\ sessState' = [sessState EXCEPT ![s] = "CLOSED"]
    /\ outQ' = [outQ EXCEPT ![s] = <<>>]
    /\ registry' = registry \ {s}
    /\ sessCode' = [sessCode EXCEPT ![s] = ""]
    /\ sessLfm' = [sessLfm EXCEPT ![s] = Detached]
    /\ dropMark' = [dropMark EXCEPT ![s] = FALSE]
    /\ closing' = [closing EXCEPT ![s] = FALSE]
    /\ lastSent' = [lastSent EXCEPT ![s] = ""]
    /\ lastLive' = [lastLive EXCEPT ![s] = 0]
    /\ UNCHANGED <<expired, calls, cur, todo, visiting, snap, nRequests>>
    /\ UNCHANGED notServer

Connected(s) == sessState[s] \in {"UNAUTHENTICATED", "AUTHENTICATED", "READY"}

\* The single writer of a session drains its queue to the transport in order.
WriterSend(s) ==
    /\ Connected(s)
    /\ ~dropMark[s]
    /\ outQ[s] # <<>>
    /\ lastSent' = [lastSent EXCEPT ![s] = Head(outQ[s]).tag]
    /\ lastLive' = [lastLive EXCEPT ![s] = IF Head(outQ[s]).live THEN Head(outQ[s]).call.id ELSE @]
    /\ outQ' = [outQ EXCEPT ![s] = Tail(@)]
    /\ UNCHANGED <<sessState, sessCode, sessLfm, dropMark, closing, registry, expired,
                   calls, cur, todo, visiting, snap, nRequests>>
    /\ UNCHANGED notServer

\* The writer sees the drop mark, or has flushed the last frame of a closing session.
WriterClose(s) ==
    /\ Connected(s)
    /\ dropMark[s] \/ (closing[s] /\ outQ[s] = <<>>)
    /\ CloseSession(s)

\* The client (or the network) closes the transport.
TransportClose(s) ==
    /\ Connected(s)
    /\ CloseSession(s)

\* Time passes a credential's expiration instant.
Expire(code) ==
    /\ code \in DOMAIN Credentials
    /\ Credentials[code].expiration
    /\ code \notin expired
    /\ expired' = expired \cup {code}
    /\ UNCHANGED <<sessState, sessCode, sessLfm, outQ, dropMark, closing, lastSent, lastLive, registry,
                   calls, cur, todo, visiting, snap, nRequests>>
    /\ UNCHANGED notServer

\* The admission tick terminates the sessions whose credential has expired.
TickTargets == {s \in Sessions : Registered(s) /\ CredentialExpired(s)}

Tick ==
    /\ TickTargets # {}
    /\ outQ' = [s \in Sessions |->
          IF s \in TickTargets THEN Enqueue(Out(s), Ctl("XPR")).q ELSE outQ[s]]
    /\ dropMark' = [s \in Sessions |->
          IF s \in TickTargets THEN Enqueue(Out(s), Ctl("XPR")).drop ELSE dropMark[s]]
    /\ closing' = [s \in Sessions |-> closing[s] \/ s \in TickTargets]
    /\ UNCHANGED <<sessState, sessCode, sessLfm, lastSent, lastLive, registry, expired, calls,
                   cur, todo, visiting, snap, nRequests>>
    /\ UNCHANGED notServer

ServerNext ==
    \/ \E s \in Sessions : Connect(s)
    \/ \E s \in Sessions, code \in PresentedCodes : ReceivePin(s, code)
    \/ \E s \in Sessions : Admit(s)
    \/ \E s \in Sessions, payload \in LfmPayloads : ReceiveLfm(s, payload, FALSE)
    \/ \E s \in Sessions : ReceiveLfm(s, EmptyMap, TRUE)
    \/ \E s \in Sessions, id \in 1..MaxCalls, flag \in Flags : ReceiveCallRequest(s, id, flag)
    \/ \E shape \in CallShapes : Ingest(shape)
    \/ \E s \in Sessions : NotifyLoad(s)
    \/ \E s \in Sessions : NotifyVisit(s)
    \/ \E s \in Sessions : WriterSend(s)
    \/ \E s \in Sessions : WriterClose(s)
    \/ \E s \in Sessions : TransportClose(s)
    \/ \E code \in DOMAIN Credentials : Expire(code)
    \/ Tick

(***************************************************************************)
(* The schema bootstrap: src/server/database.go.                           *)
(***************************************************************************)
MaxRuns == 2
MaxFailures == 1
MaxLegacyRows == 1

DbTypes == {"sqlite", "mariadb", "mysql", "postgresql"}

\* the chain of migrate(), in its order
NumMigrations == 12
Migrations == 1..NumMigrations
LegacyMigration == 10

\* the migrations an installation that still has SequelizeMeta may hold: the first p of
\* those that precede the v6.0 steps
LegacyPrefixes == 1..7

\* number of statements in the queries of migration m for the dialect
SchemaLen(type, m) ==
    CASE m = 1 -> 2
      [] m = 2 -> 4
      [] m = 3 -> 2
      [] m = 4 -> 3
      [] m = 5 -> 2
      [] m = 6 -> 6
      [] m = 7 -> 16
      [] m = 8 -> IF type \in {"sqlite", "postgresql"} THEN 6 ELSE 4
      [] m = 9 -> 4
      [] m = 10 -> IF type = "sqlite" THEN 13 ELSE 7
      [] m = 11 -> 1
      [] m = 12 -> IF type = "sqlite" THEN 5 ELSE 1

NoMigration == [m |-> 0, outcome |-> "", total |-> 0, executed |-> 0, err |-> FALSE]

EmptyStore ==
    [table |-> "none", names |-> {}, schema |-> [m \in Migrations |-> 0],
     commits |-> [m \in Migrations |-> 0], legacy |-> 0, groups |-> FALSE, tags |-> FALSE]

\* an installation of the former server: SequelizeMeta holds the first p migrations
LegacyStore(type, p, rows) ==
    [EmptyStore EXCEPT !.table = "SequelizeMeta",
                       !.names = 1..p,
                       !.schema = [m \in Migrations |-> IF m <= p THEN SchemaLen(type, m) ELSE 0],
                       !.commits = [m \in Migrations |-> IF m <= p THEN 1 ELSE 0],
                       !.legacy = rows,
                       !.groups = TRUE, !.tags = TRUE]

NotYet == [set |-> FALSE, names |-> {}, schema |-> [m \in Migrations |-> 0]]

DbInit ==
    /\ dbType \in DbTypes
    /\ store \in {EmptyStore} \cup
                 {LegacyStore(dbType, p, rows) : p \in LegacyPrefixes, rows \in 0..MaxLegacyRows}
    /\ pc = "idle"
    /\ nextMig = 0
    /\ attempted = {}
    /\ seedRan = FALSE
    /\ last = NoMigration
    /\ firstOk = NotYet
    /\ runs = 0
    /\ failures = 0

\* a database/sql transaction: the statements executed in it, the Meta row inserted in it
TxBegin == [stmts |-> 0, name |-> FALSE]

\* tx.Exec() of n statements in a row
TxExec(tx, n) == [tx EXCEPT !.stmts = @ + n]

TxInsertName(tx) == [tx EXCEPT !.name = TRUE]

\* MySQL and MariaDB end the open transaction at every schema statement (create, alter,
\* drop, rename): what was executed is committed there and what follows runs outside a
\* transaction. The queries of every migration begin with such a statement for these
\* engines; SQLite and PostgreSQL keep schema statements inside the transaction.
ImplicitCommit(type) == type \in {"mariadb", "mysql"}

\* the statements executed in the transaction, and its Meta row, are in effect
Applied(st, tx, m) ==
    [st EXCEPT !.schema[m] = @ + tx.stmts,
               !.names = IF tx.name THEN @ \cup {m} ELSE @]

\* tx.Commit(): the statements and the Meta row are in effect
Commit(st, tx, m) == [Applied(st, tx, m) EXCEPT !.commits[m] = @ + 1]

\* tx.Rollback(): what the transaction still holds is discarded, which is everything
\* unless the engine has committed it already
Rollback(type, st, tx, m) == IF ImplicitCommit(type) THEN Applied(st, tx, m) ELSE st

\* what can happen to a call of migrateWithSchema: the count query fails, Begin fails,
\* statement k + 1 fails after k statements, the Meta insert fails, Commit fails, or
\* nothing fails
Failing == {"countFail", "beginFail", "stmtFail", "metaFail", "commitFail"}

Result(st, err, executed) == [store |-> st, err |-> err, executed |-> executed]

migrateWithSchema(type, st, m, total, outcome, k) ==
    IF outcome = "countFail" THEN Result(st, TRUE, 0)
    ELSE IF m \in st.names THEN Result(st, FALSE, 0)
    ELSE IF outcome = "beginFail" THEN Result(st, FALSE, 0)
    ELSE IF outcome = "stmtFail"
         THEN Result(Rollback(type, st, TxExec(TxBegin, k), m), TRUE, k)
    ELSE IF outcome = "metaFail"
         THEN Result(Rollback(type, st, TxExec(TxBegin, total), m), TRUE, total)
    ELSE IF outcome = "commitFail"
         THEN Result(Rollback(type, st, TxInsertName(TxExec(TxBegin, total)), m), TRUE, total)
    ELSE Result(Commit(st, TxInsertName(TxExec(TxBegin, total)), m), FALSE, total)

\* the calls the model makes: k counts only for a failing statement, and a migration
\* whose name is in Meta never reaches Begin
Feasible(st, m, total, outcome, k) ==
    /\ outcome \in Failing \cup {"ok"}
    /\ outcome = "stmtFail" => k \in 0..(total - 1)
    /\ outcome # "stmtFail" => k = 0
    /\ m \in st.names => outcome \in {"ok", "countFail"}

\* migration20220101070000 reads the legacy talkgroups and units before it migrates:
\* "rows" (read; one insert per legacy row is appended), "queryFail" (the query fails and
\* the block is skipped) or "scanFail" (a row cannot be decoded: the error is returned)
PreQueries(st, m) ==
    IF m # LegacyMigration THEN {"none"}
    ELSE IF m \in st.names THEN {"queryFail"}
    ELSE {"rows", "queryFail"} \cup (IF st.legacy > 0 THEN {"scanFail"} ELSE {})

PreInjected(st, m, pre) == m = LegacyMigration /\ m \notin st.names /\ pre \in {"queryFail", "scanFail"}

Queries(type, st, m, pre) == SchemaLen(type, m) + (IF pre = "rows" THEN st.legacy ELSE 0)

Injected(st, m, pre, outcome) ==
    (IF PreInjected(st, m, pre) THEN 1 ELSE 0)
        + (IF pre # "scanFail" /\ outcome \in Failing THEN 1 ELSE 0)

\* migrate(): the chain goes on only while err == nil; NewDatabase: log.Fatal(err)
AfterMigrationIgnoringErr(m, err) ==
    IF m = NumMigrations THEN [pc |-> "seed", nextMig |-> 0]
    ELSE [pc |-> "migrate", nextMig |-> m + 1]

AfterMigration(m, err) ==
    IF err THEN [pc |-> "fatal", nextMig |-> 0]
    ELSE IF m = NumMigrations THEN [pc |-> "seed", nextMig |-> 0]
    ELSE [pc |-> "migrate", nextMig |-> m + 1]

\* NewDatabase is called: the process starts (again)
NewDatabase ==
    /\ pc \in {"idle", "returned", "fatal"}
    /\ runs < MaxRuns
    /\ runs' = runs + 1
    /\ pc' = "prepare"
    /\ nextMig' = 0
    /\ attempted' = {}
    /\ seedRan' = FALSE
    /\ last' = NoMigration
    /\ UNCHANGED <<dbType, store, firstOk, failures>>
    /\ UNCHANGED notDb

\* prepareMigration: find rdioScannerMeta, else rename SequelizeMeta, else create it;
\* execFails: the last statement it executes returns an error
prepareMigration(execFails) ==
    /\ pc = "prepare"
    /\ execFails => failures < MaxFailures
    /\ failures' = IF execFails THEN failures + 1 ELSE failures
    /\ IF execFails
       THEN /\ pc' = "fatal"
            /\ UNCHANGED <<store, nextMig>>
       ELSE /\ store' = [store EXCEPT !.table = "rdioScannerMeta"]
            /\ pc' = "migrate"
            /\ nextMig' = 1
    /\ UNCHANGED <<dbType, attempted, seedRan, last, firstOk, runs>>
    /\ UNCHANGED notDb

\* one step of migrate(): migration m builds its queries and calls migrateWithSchema
Migration(m, pre, outcome, k) ==
    /\ pc = "migrate"
    /\ nextMig = m
    /\ pre \in PreQueries(store, m)
    /\ Feasible(store, m, Queries(dbType, store, m, pre), outcome, k)
    /\ pre = "scanFail" => outcome = "ok"
    /\ failures + Injected(store, m, pre, outcome) <= MaxFailures
    /\ failures' = failures + Injected(store, m, pre, outcome)
    /\ attempted' = attempted \cup {m}
    /\ LET total == Queries(dbType, store, m, pre)
           res == IF pre = "scanFail" THEN Result(store, TRUE, 0)
                  ELSE migrateWithSchema(dbType, store, m, total, outcome, k)
       IN /\ store' = res.store
          /\ last' = [m |-> m, outcome |-> IF pre = "scanFail" THEN pre ELSE outcome,
                      total |-> total, executed |-> res.executed, err |-> res.err]
          /\ pc' = AfterMigration(m, res.err).pc
          /\ nextMig' = AfterMigration(m, res.err).nextMig
    /\ UNCHANGED <<dbType, seedRan, firstOk, runs>>
    /\ UNCHANGED notDb

\* seed(): seedGroups then seedTags, each inserting its defaults into an empty table in
\* one transaction; then NewDatabase returns the database
seed(outcome) ==
    /\ pc = "seed"
    /\ outcome \in {"ok", "groupsFail", "tagsFail"}
    /\ outcome # "ok" => failures < MaxFailures
    /\ failures' = IF outcome # "ok" THEN failures + 1 ELSE failures
    /\ seedRan' = TRUE
    /\ store' = [store EXCEPT !.groups = @ \/ outcome # "groupsFail",
                              !.tags = @ \/ outcome = "ok"]
    /\ pc' = IF outcome = "ok" THEN "returned" ELSE "fatal"
    /\ firstOk' = IF outcome = "ok" /\ ~firstOk.set
                  THEN [set |-> TRUE, names |-> store.names, schema |-> store.schema]
                  ELSE firstOk
    /\ UNCHANGED <<dbType, nextMig, attempted, last, runs>>
    /\ UNCHANGED notDb

\* migrate(): the next migration of the chain, with whatever the database does to it
migrate ==
    \E m \in {nextMig} \cap Migrations :
        \E pre \in PreQueries(store, m), outcome \in Failing \cup {"ok"} :
            \E k \in 0..(Queries(dbType, store, m, pre) - 1) : Migration(m, pre, outcome, k)

DbNext ==
    \/ NewDatabase
    \/ \E execFails \in BOOLEAN : prepareMigration(execFails)
    \/ migrate
    \/ \E outcome \in {"ok", "groupsFail", "tagsFail"} : seed(outcome)

\* the state of the bootstrap while the other parts of the system are studied
DbIdle ==
    /\ dbType = "sqlite"
    /\ store = EmptyStore
    /\ pc = "idle"
    /\ nextMig = 0
    /\ attempted = {}
    /\ seedRan = FALSE
    /\ last = NoMigration
    /\ firstOk = NotYet
    /\ runs = 0
    /\ failures = 0

(***************************************************************************)
(* The listener client: src/client/.../rdio-scanner.service.ts.            *)
(***************************************************************************)
MaxQueue == 2
AvoidMinutes == 1

\* the config.systems a CFG message brings in the model
Configs ==
    { (1 :> {1, 2}),
      (1 :> {1}) @@ (2 :> {1}) }

\* the calls a CAL message brings in the model
ClientCalls ==
    { [Shape(1, 1, {}) EXCEPT !.id = 1], [Shape(1, 1, {2}) EXCEPT !.id = 2],
      [Shape(2, 1, {}) EXCEPT !.id = 3] }

\* the talkgroup the user avoids for some minutes in the model
TimedPairs == {<<1, 1>>}

\* search options, and the playbackList of an LCL reply (results as call ids)
NoOptions == [sort |-> 0, limit |-> 0, offset |-> 0]

NoList == [set |-> FALSE, options |-> NoOptions, count |-> 0, results |-> << >>]

\* the values of a JSON message: undefined (an absent element), null, a string, a
\* number, a boolean, a livefeed map {sys: {tg: boolean}}, a call, search options, a
\* config, a list of calls
JsUndefined ==
    [k |-> "undefined", s |-> "", n |-> 0, b |-> FALSE, m |-> << >>, c |-> NoCall,
     o |-> NoOptions, g |-> << >>, l |-> NoList]

JsNull == [JsUndefined EXCEPT !.k = "null"]

JsString(s) == [JsUndefined EXCEPT !.k = "string", !.s = s]

JsNumber(n) == [JsUndefined EXCEPT !.k = "number", !.n = n]

JsBoolean(b) == [JsUndefined EXCEPT !.k = "boolean", !.b = b]

JsMap(m) == [JsUndefined EXCEPT !.k = "map", !.m = m]

JsCall(c) == [JsUndefined EXCEPT !.k = "call", !.c = c]

JsOptions(o) == [JsUndefined EXCEPT !.k = "options", !.o = o]

JsConfig(g) == [JsUndefined EXCEPT !.k = "config", !.g = g]

\* a config with playbackGoesLive set
JsConfigLive(g) == [JsConfig(g) EXCEPT !.b = TRUE]

JsList(l) == [JsUndefined EXCEPT !.k = "list", !.l = l]

\* if (payload): false for undefined, null, "", 0 and false
Truthy(v) ==
    CASE v.k \in {"undefined", "null"} -> FALSE
      [] v.k = "string" -> v.s # ""
      [] v.k = "number" -> v.n # 0
      [] v.k = "boolean" -> v.b
      [] OTHER -> TRUE

\* sendtoWebsocket: message = [command]; if (payload) push(payload); if (flags !== null
\* && flags !== undefined) push(flags); JSON.stringify(message)
Encode(command, payload, flags) ==
    <<JsString(command)>>
        \o (IF Truthy(payload) THEN <<payload>> ELSE << >>)
        \o (IF flags.k \notin {"null", "undefined"} THEN <<flags>> ELSE << >>)

\* message[i] of a parsed array: undefined beyond its length
At(message, i) == IF i \in DOMAIN message THEN message[i] ELSE JsUndefined

\* this.livefeedMap[sys]: undefined when the system has no entry
HasSystem(map, sys) == sys \in DOMAIN map

\* this.livefeedMap[sys][tg]?.active: undefined when the talkgroup has no entry
ActiveIs(map, sys, tg, value) ==
    /\ tg \in DOMAIN map[sys]
    /\ map[sys][tg] = value

\* isAvoided: !!livefeedMap[system] && livefeedMap[system][talkgroup]?.active !== true
isAvoided(map, c) ==
    HasSystem(map, c.system) /\ ~ActiveIs(map, c.system, c.talkgroup, TRUE)

\* isPatched: isAvoided(call) && patches.some(tg => !!map[system] && map[system][tg]?.active || false)
isPatched(map, c) ==
    /\ isAvoided(map, c)
    /\ \E tg \in c.patches : HasSystem(map, c.system) /\ ActiveIs(map, c.system, tg, TRUE)

\* cleanQueue, lfm(sys, tg): livefeedMap && livefeedMap[sys] && livefeedMap[sys][tg]?.active
lfm(map, sys, tg) == HasSystem(map, sys) /\ ActiveIs(map, sys, tg, TRUE)

\* cleanQueue, isActive(call): the call's talkgroup, else the first active patch
isActive(map, c) ==
    \/ lfm(map, c.system, c.talkgroup)
    \/ \E tg \in c.patches : lfm(map, c.system, tg)

RECURSIVE Filter(_, _)
\* callQueue.filter(isActive)
Filter(q, map) ==
    IF q = <<>> THEN <<>>
    ELSE IF isActive(map, Head(q)) THEN <<Head(q)>> \o Filter(Tail(q), map)
    ELSE Filter(Tail(q), map)

\* the (system, talkgroup) entries of a map, and those of a config
Entries(map) == {p \in Pairs : HasSystem(map, p[1]) /\ p[2] \in DOMAIN map[p[1]]}

\* this.livefeedMap[sys] && this.livefeedMap[sys][tg].active is the value
lfmIs(map, p, value) == HasSystem(map, p[1]) /\ ActiveIs(map, p[1], p[2], value)

\* config.groups in the model: one group, in every system, holding talkgroup 1
GroupMembers(cfg) == {p \in Pairs : p[1] \in DOMAIN cfg /\ p[2] \in cfg[p[1]] /\ p[2] = 1}

\* rebuildCategories: the status of the group, allOff ? off : allOn ? on : partial
\* ("none" when config.groups does not list it)
Category(cfg, map) ==
    IF GroupMembers(cfg) = {} THEN "none"
    ELSE IF \A p \in GroupMembers(cfg) : lfmIs(map, p, FALSE) THEN "off"
    ELSE IF \A p \in GroupMembers(cfg) : lfmIs(map, p, TRUE) THEN "on"
    ELSE "partial"

\* rebuildLivefeedMap: one entry per talkgroup of config.systems; an entry the map
\* already holds is kept, a new one starts active unless its category is off
rebuildLivefeedMap(cfg, map, category) ==
    [sys \in DOMAIN cfg |->
        [tg \in cfg[sys] |->
            IF HasSystem(map, sys) /\ tg \in DOMAIN map[sys] THEN map[sys][tg]
            ELSE ~(tg = 1 /\ category = "off")]]

\* no snapshot: livefeedMapPriorToHoldSystem / livefeedMapPriorToHoldTalkgroup undefined
NoMap == [set |-> FALSE, map |-> << >>]

Kept(map) == [set |-> TRUE, map |-> map]

\* the state of the service: its fields, the armed avoid timers (entries of livefeedMap),
\* the frames handed to the socket by the handler that ran last
Client ==
    [config |-> config, livefeedMap |-> livefeedMap, priorSys |-> priorSys,
     priorTg |-> priorTg, timers |-> timers, callQueue |-> callQueue, call |-> call,
     callPrevious |-> callPrevious, livefeedMode |-> livefeedMode,
     playbackPending |-> playbackPending, playbackList |-> playbackList,
     playbackRefreshing |-> playbackRefreshing, playbackGoesLive |-> playbackGoesLive,
     websocket |-> websocket, sent |-> sent, downloaded |-> downloaded]

Becomes(st) ==
    /\ config' = st.config
    /\ livefeedMap' = st.livefeedMap
    /\ priorSys' = st.priorSys
    /\ priorTg' = st.priorTg
    /\ timers' = st.timers
    /\ callQueue' = st.callQueue
    /\ call' = st.call
    /\ callPrevious' = st.callPrevious
    /\ livefeedMode' = st.livefeedMode
    /\ playbackPending' = st.playbackPending
    /\ playbackList' = st.playbackList
    /\ playbackRefreshing' = st.playbackRefreshing
    /\ playbackGoesLive' = st.playbackGoesLive
    /\ websocket' = st.websocket
    /\ sent' = st.sent
    /\ downloaded' = st.downloaded

\* a handler starts: nothing sent or downloaded by it yet
Handling(st) == [st EXCEPT !.sent = << >>, !.downloaded = 0]

\* sendtoWebsocket: only when websocket.readyState === 1
sendtoWebsocket(st, command, payload, flags) ==
    IF st.websocket = "open"
    THEN [st EXCEPT !.sent = Append(@, Encode(command, payload, flags))]
    ELSE st

\* stop(): the playing call becomes callPrevious
stop(st) ==
    IF st.call # NoCall THEN [st EXCEPT !.callPrevious = st.call, !.call = NoCall] ELSE st

\* play() with no argument: keep the playing call, else take the head of the queue
play(q, current) ==
    IF current # NoCall \/ q = << >> THEN [call |-> current, callQueue |-> q]
    ELSE [call |-> Head(q), callQueue |-> Tail(q)]

playQueue(st) ==
    [st EXCEPT !.call = play(st.callQueue, st.call).call,
               !.callQueue = play(st.callQueue, st.call).callQueue]

\* getCall: CAL with the id as a string, and the flag
getCall(st, id, flag) == sendtoWebsocket(st, "CAL", JsString(ToString(id)), JsString(flag))

\* searchCalls: LCL with the options
searchCalls(st, options) == sendtoWebsocket(st, "LCL", JsOptions(options), JsUndefined)

\* a startLivefeed that sends nothing when the livefeed is on already
startLivefeedOnce(st) ==
    IF st.livefeedMode = "online" THEN st
    ELSE sendtoWebsocket([st EXCEPT !.livefeedMode = "online"], "LFM", JsMap(st.livefeedMap),
                         JsUndefined)

\* startLivefeed: the frame lists every entry of livefeedMap with its active flag
startLivefeed(st) ==
    sendtoWebsocket([st EXCEPT !.livefeedMode = "online"], "LFM", JsMap(st.livefeedMap),
                    JsUndefined)

clearQueue(st) == [st EXCEPT !.callQueue = << >>]

\* a stopLivefeed that lets the current call play on
stopLivefeedPlaying(st) ==
    sendtoWebsocket(clearQueue([st EXCEPT !.livefeedMode = "offline"]), "LFM", JsNull,
                    JsUndefined)

\* stopLivefeed: offline, clearQueue, stop, LFM null
stopLivefeed(st) ==
    sendtoWebsocket(stop(clearQueue([st EXCEPT !.livefeedMode = "offline"])), "LFM",
                    JsNull, JsUndefined)

\* stopPlaybackMode: offline, playbackRefreshing = false, clearQueue, stop
stopPlaybackMode(st) ==
    stop(clearQueue([st EXCEPT !.livefeedMode = "offline", !.playbackRefreshing = FALSE]))

\* playbackList.results.findIndex(call => call.id === id), from 1; 0 when not found
FindIndex(results, id) ==
    IF \E i \in DOMAIN results : results[i] = id
    THEN CHOOSE i \in DOMAIN results : results[i] = id /\ \A j \in 1..(i - 1) : results[j] # id
    ELSE 0

\* holdSystem with the snapshot set: livefeedMap = the snapshot, rebuildCategories
releaseSystem(st) ==
    IF (st.call # NoCall \/ st.callPrevious # NoCall) /\ st.priorSys.set
    THEN [st EXCEPT !.livefeedMap = st.priorSys.map, !.priorSys = NoMap, !.timers = {}]
    ELSE st

\* holdTalkgroup with the snapshot set
releaseTalkgroup(st) ==
    IF (st.call # NoCall \/ st.callPrevious # NoCall) /\ st.priorTg.set
    THEN [st EXCEPT !.livefeedMap = st.priorTg.map, !.priorTg = NoMap, !.timers = {}]
    ELSE st

\* a loadAndPlay that enters playback mode from any mode
loadAndPlayAnyMode(st, id) ==
    IF id = 0 THEN st
    ELSE LET stopped == stop([st EXCEPT !.playbackPending = id])
             moded == IF stopped.livefeedMode # "playback"
                      THEN releaseTalkgroup(releaseSystem(
                               [stopped EXCEPT !.livefeedMode = "playback"]))
                      ELSE stopped
         IN getCall(moded, id, "p")

\* loadAndPlay(id): playbackPending = id, stop, offline -> playback (the holds are
\* released without resubscribing), getCall(id, "p")
loadAndPlay(st, id) ==
    IF id = 0 THEN st
    ELSE LET stopped == stop([st EXCEPT !.playbackPending = id])
             moded == IF stopped.livefeedMode = "offline"
                      THEN releaseTalkgroup(releaseSystem(
                               [stopped EXCEPT !.livefeedMode = "playback"]))
                      ELSE stopped
         IN getCall(moded, id, "p")

\* loadAndDownload(id): getCall(id, "d")
loadAndDownload(st, id) == IF id = 0 THEN st ELSE getCall(st, id, "d")

\* a refresh at every end of the walk
refreshAlways(st) ==
    searchCalls([st EXCEPT !.playbackRefreshing = TRUE], st.playbackList.options)

\* the end of a playback walk: refresh the page once, then leave playback mode, for the
\* livefeed when config.playbackGoesLive is set
refreshOrStop(st) ==
    IF st.playbackRefreshing
    THEN IF st.playbackGoesLive THEN startLivefeed(stopPlaybackMode(st))
         ELSE stopPlaybackMode(st)
    ELSE searchCalls([st EXCEPT !.playbackRefreshing = TRUE], st.playbackList.options)

\* playbackNextCall: the call after callPrevious in the page, else the next page
playbackNextCall(st) ==
    IF \/ st.call # NoCall
       \/ st.livefeedMode # "playback"
       \/ ~st.playbackList.set
       \/ st.playbackPending # 0
    THEN st
    ELSE LET list == st.playbackList
             results == list.results
             options == list.options
             index == FindIndex(results, st.callPrevious.id)
         IN IF options.sort = -1
            THEN IF index = 0
                 THEN IF results = << >> THEN st
                      ELSE loadAndPlay(st, results[Len(results)])
                 ELSE IF index = 1
                 THEN IF options.offset < options.limit
                      THEN refreshOrStop(st)
                      ELSE searchCalls(st, [options EXCEPT !.offset = @ - options.limit])
                 ELSE loadAndPlay(st, results[index - 1])
            ELSE IF index = 0
                 THEN IF results = << >> THEN st
                      ELSE loadAndPlay(st, results[1])
                 ELSE IF index = Len(results)
                 THEN IF options.offset < list.count - options.limit
                      THEN searchCalls(st, [options EXCEPT !.offset = @ + options.limit])
                      ELSE refreshOrStop(st)
                 ELSE loadAndPlay(st, results[index + 1])

\* skip(): stop, then playbackNextCall in playback mode, play otherwise
skip(st) ==
    IF stop(st).livefeedMode = "playback" THEN playbackNextCall(stop(st))
    ELSE playQueue(stop(st))

\* cleanQueue: filter the queue, skip the playing call if it is no longer active
cleanQueue(st) ==
    LET filtered == [st EXCEPT !.callQueue = Filter(@, st.livefeedMap)]
    IN IF filtered.call # NoCall /\ ~isActive(filtered.livefeedMap, filtered.call)
       THEN skip(filtered)
       ELSE filtered

\* the map of a hold: every entry of the map, active only in the system of the call:
\* the talkgroup of the call (holdTalkgroup), or those that were active (holdSystem)
HeldMap(map, c, talkgroupOnly) ==
    [sys \in DOMAIN map |-> [tg \in DOMAIN map[sys] |->
        sys = c.system /\ (IF talkgroupOnly THEN tg = c.talkgroup ELSE map[sys][tg])]]

resubscribe(st) == IF st.livefeedMode = "online" THEN startLivefeed(st) ELSE st

\* a holdSystem that engages over a talkgroup hold without releasing it
holdSystemOverTalkgroup(st) ==
    LET c == IF st.call # NoCall THEN st.call ELSE st.callPrevious
    IN IF c = NoCall THEN st
       ELSE IF st.priorSys.set THEN resubscribe(releaseSystem(st))
       ELSE resubscribe(cleanQueue(
                [st EXCEPT !.priorSys = Kept(st.livefeedMap),
                           !.livefeedMap = HeldMap(st.livefeedMap, c, FALSE),
                           !.timers = {}]))

\* holdSystem(): release the hold if it is engaged; else release a talkgroup hold, keep
\* the map, unsubscribe its timers and leave active only the entries of the system of
\* the call that were active (allOn is false for a system that has talkgroups), then
\* cleanQueue; resubscribe when online
holdSystem(st) ==
    LET c == IF st.call # NoCall THEN st.call ELSE st.callPrevious
    IN IF c = NoCall THEN st
       ELSE IF st.priorSys.set THEN resubscribe(releaseSystem(st))
       ELSE LET base == releaseTalkgroup(st)
            IN resubscribe(cleanQueue(
                   [base EXCEPT !.priorSys = Kept(base.livefeedMap),
                                !.livefeedMap = HeldMap(base.livefeedMap, c, FALSE),
                                !.timers = {}]))

\* holdTalkgroup(): the same, leaving active only the talkgroup of the call
holdTalkgroup(st) ==
    LET c == IF st.call # NoCall THEN st.call ELSE st.callPrevious
    IN IF c = NoCall THEN st
       ELSE IF st.priorTg.set THEN resubscribe(releaseTalkgroup(st))
       ELSE LET base == releaseSystem(st)
            IN resubscribe(cleanQueue(
                   [base EXCEPT !.priorTg = Kept(base.livefeedMap),
                                !.livefeedMap = HeldMap(base.livefeedMap, c, TRUE),
                                !.timers = {}]))

\* avoid({system, talkgroup, minutes}): forget the hold snapshots, clearTimer, toggle
\* the entry, setTimer when minutes are given; cleanQueue unless in playback mode;
\* resubscribe when online
avoid(st, sys, tg, minutes) ==
    LET toggled == [st EXCEPT !.priorSys = NoMap, !.priorTg = NoMap,
                              !.livefeedMap[sys][tg] = ~@,
                              !.timers = IF minutes > 0 THEN @ \cup {<<sys, tg>>}
                                         ELSE @ \ {<<sys, tg>>}]
        cleaned == IF toggled.livefeedMode # "playback" THEN cleanQueue(toggled) ELSE toggled
    IN resubscribe(cleaned)

\* the timer of an avoid fires: lfm.active = true, the timer is gone
timerFires(st, p) ==
    [st EXCEPT !.livefeedMap[p[1]][p[2]] = TRUE, !.timers = @ \ {p}]

\* config.systems.forEach(sys => sys.talkgroups.forEach(tg => ...)): the talkgroups in
\* the order of the loops, systems and talkgroups by ascending id
Before(p, q) == p[1] < q[1] \/ (p[1] = q[1] /\ p[2] < q[2])

ConfigPairs(cfg) == {p \in Pairs : p[1] \in DOMAIN cfg /\ p[2] \in cfg[p[1]]}

\* toggleCategory, the loop throws a TypeError at this talkgroup: livefeedMap has no
\* entry for its system, or none for a talkgroup of the category
LoopThrowsAt(st, p) ==
    \/ ~HasSystem(st.livefeedMap, p[1])
    \/ p \in GroupMembers(st.config) /\ p[2] \notin DOMAIN st.livefeedMap[p[1]]

LoopThrows(st) == \E p \in ConfigPairs(st.config) : LoopThrowsAt(st, p)

\* the talkgroups of the category the loop reaches
Reached(st) ==
    {p \in GroupMembers(st.config) :
        \A q \in ConfigPairs(st.config) : (q = p \/ Before(q, p)) => ~LoopThrowsAt(st, q)}

\* toggleCategory(category): forget the hold snapshots; every talkgroup of the category
\* gets clearTimer and active = (category.status !== on); resubscribe when online, then
\* cleanQueue. A TypeError in the loop, or in the test that follows it when the playing
\* call's system has no entry, ends the handler there.
toggleCategory(st) ==
    LET status == Category(st.config, st.livefeedMap) # "on"
        looped == [st EXCEPT !.priorSys = NoMap, !.priorTg = NoMap,
                             !.timers = @ \ Reached(st),
                             !.livefeedMap =
                                 [sys \in DOMAIN @ |-> [tg \in DOMAIN @[sys] |->
                                     IF <<sys, tg>> \in Reached(st) THEN status
                                     ELSE @[sys][tg]]]]
    IN IF LoopThrows(st) THEN looped
       ELSE IF looped.call # NoCall /\ ~HasSystem(looped.livefeedMap, looped.call.system)
       THEN looped
       ELSE cleanQueue(resubscribe(looped))

\* livefeed(): offline -> startLivefeed; online -> stopLivefeed; playback ->
\* stopPlaybackMode
livefeed(st) ==
    CASE st.livefeedMode = "offline" -> startLivefeed(st)
      [] st.livefeedMode = "online" -> stopLivefeed(st)
      [] st.livefeedMode = "playback" -> stopPlaybackMode(st)

\* a queue() that pushes every call at the tail
queueAtTail(st, c, priority) ==
    IF st.livefeedMode = "offline" THEN st
    ELSE LET pushed == [st EXCEPT !.callQueue = Append(@, c)]
         IN IF pushed.call # NoCall THEN pushed ELSE playQueue(pushed)

\* queue(call, {priority}): nothing when offline; unshift or push; play() unless a call
\* is playing (every call of the model carries audio)
queue(st, c, priority) ==
    IF st.livefeedMode = "offline" THEN st
    ELSE LET pushed == [st EXCEPT !.callQueue =
                           IF priority THEN <<c>> \o @ ELSE Append(@, c)]
         IN IF pushed.call # NoCall THEN pushed ELSE playQueue(pushed)

\* the known command tags
Commands == {"CAL", "CFG", "XPR", "LCL", "LSC", "LFM", "MAX", "PIN", "VER"}

\* a received message: a JSON array of values, or something else (another JSON value,
\* or text that JSON.parse rejects)
Parsed(items) == [array |-> TRUE, items |-> items]

NotArray == [array |-> FALSE, items |-> << >>]

\* parseWebsocketMessage, CAL: download for flag "d"; at the head of the queue for flag
\* "p" with the pending id; at the tail otherwise. A missing message[1] passes the test
\* !== null and the handler throws.
parseCall(st, message) ==
    LET raw == At(message, 2)
        flag == At(message, 3)
    IN IF raw.k = "null" THEN st
       ELSE IF raw.k # "call" THEN st
       ELSE IF flag.k = "string" /\ flag.s = "d" THEN [st EXCEPT !.downloaded = raw.c.id]
       ELSE IF flag.k = "string" /\ flag.s = "p" /\ raw.c.id = st.playbackPending
       THEN queue([st EXCEPT !.playbackPending = 0], raw.c, TRUE)
       ELSE queue(st, raw.c, FALSE)

\* parseWebsocketMessage, CFG: take the config; rebuildLivefeedMap builds the new map
\* from livefeedMap and stores it in the hold snapshot that is set, else in livefeedMap;
\* resubscribe when online
parseConfig(st, cfg) ==
    LET built == rebuildLivefeedMap(cfg, st.livefeedMap, Category(st.config, st.livefeedMap))
        stored == IF st.priorSys.set THEN [st EXCEPT !.priorSys = Kept(built)]
                  ELSE IF st.priorTg.set THEN [st EXCEPT !.priorTg = Kept(built)]
                  ELSE [st EXCEPT !.livefeedMap = built, !.timers = @ \cap Entries(built)]
    IN resubscribe([stored EXCEPT !.config = cfg])

\* parseWebsocketMessage, LCL: keep the list; playbackNextCall in playback mode
parseList(st, list) ==
    LET kept == [st EXCEPT !.playbackList = list]
    IN IF kept.livefeedMode = "playback" THEN playbackNextCall(kept) ELSE kept

\* a parseWebsocketMessage that reads the tag without regard to its case
parseAnyCase(st, message) ==
    IF ~message.array \/ message.items = << >> THEN st
    ELSE LET tag == message.items[1]
             payload == At(message.items, 2)
         IN IF tag.k # "string" THEN st
            ELSE IF tag.s \in {"CAL", "cal"} THEN parseCall(st, message.items)
            ELSE IF tag.s \in {"CFG", "cfg"} /\ payload.k = "config"
                 THEN parseConfig([st EXCEPT !.playbackGoesLive = payload.b], payload.g)
            ELSE IF tag.s \in {"LCL", "lcl"} /\ payload.k = "list" /\ payload.l.set
                 THEN parseList(st, payload.l)
            ELSE st

\* parseWebsocketMessage: JSON.parse, then the switch on message[0] of an array; the
\* tags without a case, and the cases that only emit an event, change nothing
parseWebsocketMessage(st, message) ==
    IF ~message.array \/ message.items = << >> THEN st
    ELSE LET tag == message.items[1]
             payload == At(message.items, 2)
         IN IF tag.k # "string" THEN st
            ELSE IF tag.s = "CAL" THEN parseCall(st, message.items)
            ELSE IF tag.s = "CFG" /\ payload.k = "config"
                 THEN parseConfig([st EXCEPT !.playbackGoesLive = payload.b], payload.g)
            ELSE IF tag.s = "LCL" /\ payload.k = "list" /\ payload.l.set
                 THEN parseList(st, payload.l)
            ELSE st

\* the constructor: readLivefeedMap finds nothing stored, openWebsocket
ClientInit ==
    /\ config = << >>
    /\ livefeedMap = << >>
    /\ priorSys = NoMap
    /\ priorTg = NoMap
    /\ timers = {}
    /\ due = {}
    /\ callQueue = << >>
    /\ call = NoCall
    /\ callPrevious = NoCall
    /\ livefeedMode = "offline"
    /\ playbackPending = 0
    /\ playbackList = NoList
    /\ playbackRefreshing = FALSE
    /\ playbackGoesLive = FALSE
    /\ websocket = "connecting"
    /\ reconnecting = FALSE
    /\ destroyed = FALSE
    /\ sent = << >>
    /\ downloaded = 0

ClientIdle == ClientInit

\* a handler of the service runs to its end
Handled(st) ==
    /\ Becomes(st)
    /\ UNCHANGED <<reconnecting, destroyed>>
    /\ UNCHANGED notClient

\* websocket.onopen: VER and CFG are requested
Open ==
    /\ websocket = "connecting"
    /\ Handled(sendtoWebsocket(sendtoWebsocket(
           [Handling(Client) EXCEPT !.websocket = "open"],
           "VER", JsUndefined, JsUndefined), "CFG", JsUndefined, JsUndefined))
    /\ UNCHANGED due

Received(message) ==
    /\ websocket = "open"
    /\ Handled(parseWebsocketMessage(Handling(Client), message))
    /\ UNCHANGED due

\* a CFG message arrives
ReceiveConfig(cfg) == Received(Parsed(<<JsString("CFG"), JsConfig(cfg)>>))

\* a CAL message arrives, with a flag or without
ReceiveCall(c, flag) ==
    /\ Len(callQueue) < MaxQueue
    /\ Received(Parsed(<<JsString("CAL"), JsCall(c)>> \o flag))

\* the messages without a known tag in the model: text that is no JSON array, an empty
\* array, a tag that is no string, tags that no case of the switch names
OtherMessages ==
    {NotArray, Parsed(<< >>), Parsed(<<JsNumber(1), JsNull>>),
     Parsed(<<JsString("XYZ")>>), Parsed(<<JsString("lfm"), JsNull>>)}
        \cup {Parsed(<<JsString("cal"), JsCall(c)>>) : c \in ClientCalls}
        \cup {Parsed(<<JsString("cfg"), JsConfig(cfg)>>) : cfg \in Configs}

\* a message without a known tag arrives
ReceiveOther(message) == Received(message)

\* the user presses the livefeed button
Livefeed ==
    /\ Handled(livefeed(Handling(Client)))
    /\ UNCHANGED due

\* the user skips the playing call, or its audio ends
Skip ==
    /\ call # NoCall
    /\ Handled(skip(Handling(Client)))
    /\ UNCHANGED due

\* the user avoids or restores a talkgroup, for good (minutes = 0) or for some minutes;
\* due: the avoids with minutes whose time has not elapsed and that no later avoid or
\* toggleCategory of the entry has cancelled
Avoid(sys, tg, minutes) ==
    /\ HasSystem(livefeedMap, sys)
    /\ tg \in DOMAIN livefeedMap[sys]
    /\ Handled(avoid(Handling(Client), sys, tg, minutes))
    /\ due' = IF minutes > 0 THEN due \cup {<<sys, tg>>} ELSE due \ {<<sys, tg>>}

\* the minutes of an avoid have elapsed: its timer fires, unless it was unsubscribed
Elapse(p) ==
    /\ p \in due
    /\ due' = due \ {p}
    /\ Handled(IF p \in timers THEN timerFires(Handling(Client), p) ELSE Handling(Client))

HoldSystem ==
    /\ Handled(holdSystem(Handling(Client)))
    /\ UNCHANGED due

HoldTalkgroup ==
    /\ Handled(holdTalkgroup(Handling(Client)))
    /\ UNCHANGED due

\* the user toggles the category of the model
ToggleCategory ==
    /\ Category(config, livefeedMap) # "none"
    /\ Handled(toggleCategory(Handling(Client)))
    /\ due' = due \ Reached(Client)

ClientNext ==
    \/ Open
    \/ \E cfg \in Configs : ReceiveConfig(cfg)
    \/ Livefeed
    \/ \E c \in ClientCalls : ReceiveCall(c, << >>)
    \/ Skip
    \/ \E sys \in SystemIds, tg \in TalkgroupIds : Avoid(sys, tg, 0)
    \/ \E p \in TimedPairs : Avoid(p[1], p[2], AvoidMinutes)
    \/ \E p \in TimedPairs : Elapse(p)
    \/ HoldSystem
    \/ HoldTalkgroup
    \/ ToggleCategory
    \/ \E message \in OtherMessages : ReceiveOther(message)

(***************************************************************************)
(* The client asks for calls by id and receives the replies.               *)
(***************************************************************************)
\* the flags of a CAL message: none (a live call), play, download
CallFlags == {<< >>, <<JsString("p")>>, <<JsString("d")>>}

CallIds == {c.id : c \in ClientCalls}

\* the user picks a call of the search panel to play, or to download
LoadAndPlay(id) ==
    /\ Handled(loadAndPlay(Handling(Client), id))
    /\ UNCHANGED due

LoadAndDownload(id) ==
    /\ Handled(loadAndDownload(Handling(Client), id))
    /\ UNCHANGED due

CallsNext ==
    \/ Open
    \/ \E cfg \in Configs : ReceiveConfig(cfg)
    \/ Livefeed
    \/ \E id \in CallIds : LoadAndPlay(id)
    \/ \E id \in CallIds : LoadAndDownload(id)
    \/ \E c \in ClientCalls, flag \in CallFlags : ReceiveCall(c, flag)
    \/ Skip

(***************************************************************************)
(* Playback: the client walks the pages of a search.                       *)
(***************************************************************************)
\* the calls of the store, by id; a call with a greater id has a later dateTime
StoreSize == 3

Stored(id) == [Shape(1, 1, {}) EXCEPT !.id = id]

\* the search options of the model
MaxLimit == 2

SearchOptions ==
    {[sort |-> sort, limit |-> limit, offset |-> offset] :
        sort \in {-1, 1}, limit \in 1..MaxLimit, offset \in 0..(StoreSize - 1)}

\* the ids of the store sorted by dateTime, ascending (+1) or descending (-1)
Sorted(sort) == [i \in 1..StoreSize |-> IF sort = 1 THEN i ELSE StoreSize + 1 - i]

Least(a, b) == IF a < b THEN a ELSE b

\* searchCalls of the store: count is the size of the set, results the page at offset
Page(options) ==
    [set |-> TRUE, options |-> options, count |-> StoreSize,
     results |-> SubSeq(Sorted(options.sort), options.offset + 1,
                        Least(options.offset + options.limit, StoreSize))]

\* the user searches, with the player idle
Search(options) ==
    /\ livefeedMode = "offline"
    /\ Handled(searchCalls(Handling(Client), options))
    /\ UNCHANGED due

IsLcl(message) == At(message, 1) = JsString("LCL") /\ At(message, 2).k = "options"

\* the reply to the LCL request that the last handler sent
ReceiveList ==
    /\ Len(sent) = 1
    /\ IsLcl(sent[1])
    /\ Received(Parsed(<<JsString("LCL"), JsList(Page(At(sent[1], 2).o))>>))

\* the user picks a call of the page, with the player idle
Pick(id) ==
    /\ livefeedMode = "offline"
    /\ playbackList.set
    /\ FindIndex(playbackList.results, id) # 0
    /\ LoadAndPlay(id)

\* the reply to the CAL request of loadAndPlay
ReceivePending ==
    /\ playbackPending # 0
    /\ ReceiveCall(Stored(playbackPending), <<JsString("p")>>)

\* the audio of the playing call ends
Ended == livefeedMode = "playback" /\ Skip

PlaybackNext ==
    \/ Open
    \/ \E options \in SearchOptions : Search(options)
    \/ ReceiveList
    \/ \E id \in 1..StoreSize : Pick(id)
    \/ ReceivePending
    \/ Ended

(***************************************************************************)
(* Playback with the searches of the user and the replies of every kind.   *)
(***************************************************************************)
\* the reply to a search that finds no call
Empty(options) == [set |-> TRUE, options |-> options, count |-> 0, results |-> << >>]

\* the user changes the search while in playback mode
SearchAgain(options) ==
    /\ livefeedMode = "playback"
    /\ Handled(searchCalls(Handling(Client), options))
    /\ UNCHANGED due

\* the reply to the LCL request that the last handler sent, when the search finds no call
ReceiveEmptyList ==
    /\ Len(sent) = 1
    /\ IsLcl(sent[1])
    /\ Received(Parsed(<<JsString("LCL"), JsList(Empty(At(sent[1], 2).o))>>))

\* a CFG message with playbackGoesLive set arrives
ReceiveConfigLive(cfg) == Received(Parsed(<<JsString("CFG"), JsConfigLive(cfg)>>))

\* the indices of results, from 0, that playbackNextCall reads for the call to load
Reads(list, id) ==
    LET index == FindIndex(list.results, id) - 1
    IN IF list.options.sort = -1
       THEN IF index = -1 THEN {Len(list.results) - 1}
            ELSE IF index = 0 THEN {}
            ELSE {index - 1}
       ELSE IF index = -1 THEN {0}
            ELSE IF index = Len(list.results) - 1 THEN {}
            ELSE {index + 1}

RepliesNext ==
    \/ PlaybackNext
    \/ \E options \in SearchOptions : SearchAgain(options)
    \/ ReceiveEmptyList
    \/ \E cfg \in Configs : ReceiveConfigLive(cfg)
    \/ Livefeed

(***************************************************************************)
(* The socket of the client: close, reconnect, destruction of the service. *)
(***************************************************************************)
\* the close codes of the model: 1000 (normal closure), 1006 (abnormal closure)
CloseCodes == {1000, 1006}

\* onclose arms the timer on every code
ArmsAlways(code) == TRUE

\* onclose arms the timer of reconnectWebsocket: if (ev.code !== 1000)
Arms(code) == code # 1000

\* the fields no socket event touches
socketKeeps == <<config, livefeedMap, priorSys, priorTg, timers, due, callQueue,
                 livefeedMode, playbackPending, playbackList, playbackRefreshing,
                 playbackGoesLive>>

\* websocket.onclose: the socket is closed by the server or the network, or fails to
\* connect
Close(code) ==
    /\ websocket \in {"connecting", "open"}
    /\ websocket' = "closed"
    /\ reconnecting' = (reconnecting \/ Arms(code))
    /\ sent' = << >>
    /\ downloaded' = 0
    /\ UNCHANGED <<socketKeeps, call, callPrevious, destroyed>>
    /\ UNCHANGED notClient

\* the timer of onclose fires: reconnectWebsocket = closeWebsocket, openWebsocket
Reconnect ==
    /\ reconnecting
    /\ reconnecting' = FALSE
    /\ websocket' = "connecting"
    /\ sent' = << >>
    /\ downloaded' = 0
    /\ UNCHANGED <<socketKeeps, call, callPrevious, destroyed>>
    /\ UNCHANGED notClient

\* ngOnDestroy: closeWebsocket (the handlers of the socket are detached, then it is
\* closed), stop; the timer of an earlier onclose is left armed
Destroy ==
    /\ ~destroyed
    /\ destroyed' = TRUE
    /\ websocket' = "none"
    /\ call' = stop(Client).call
    /\ callPrevious' = stop(Client).callPrevious
    /\ sent' = << >>
    /\ downloaded' = 0
    /\ UNCHANGED <<socketKeeps, reconnecting>>
    /\ UNCHANGED notClient

\* the user acts on a service that is not destroyed
Pressed == ~destroyed /\ Livefeed

Arrived(c) == ReceiveCall(c, << >>)

SocketNext ==
    \/ Open
    \/ \E cfg \in Configs : ReceiveConfig(cfg)
    \/ \E c \in ClientCalls : Arrived(c)
    \/ Pressed
    \/ \E code \in CloseCodes : Close(code)
    \/ Reconnect
    \/ Destroy

(***************************************************************************)
(* The frames of the client: sendtoWebsocket encodes, JSON.parse decodes.  *)
(***************************************************************************)
\* the payloads and flags handed to sendtoWebsocket in the model: none, null, strings,
\* numbers, booleans, a livefeed map, search options; no flag, play, download
FramePayloads ==
    {JsUndefined, JsNull, JsString(""), JsString("1"), JsNumber(0), JsNumber(1),
     JsBoolean(FALSE), JsBoolean(TRUE), JsMap(1 :> (1 :> TRUE)), JsOptions(NoOptions)}

FrameFlags == {JsUndefined, JsString("p"), JsString("d")}

\* the passwords the user types in the model, and window.btoa of them
Passwords == {"", "1234"}

btoa(password) == IF password = "" THEN "" ELSE "MTIzNA=="

\* JSON.stringify of an array element: undefined is written as null
Stringified(v) == IF v.k = "undefined" THEN JsNull ELSE v

\* JSON.parse(JSON.stringify(message)): the array with its elements as JSON holds them
Decode(message) == Parsed([i \in DOMAIN message |-> Stringified(message[i])])

\* sendtoWebsocket runs with the given command, payload and flags
Send(command, payload, flags) ==
    /\ Handled(sendtoWebsocket(Handling(Client), command, payload, flags))
    /\ UNCHANGED due

\* authenticate(password): PIN with the password in base 64
Authenticate(password) == Send("PIN", JsString(btoa(password)), JsUndefined)

FramesNext ==
    \/ Open
    \/ Livefeed
    \/ \E password \in Passwords : Authenticate(password)
    \/ \E command \in Commands, payload \in FramePayloads, flags \in FrameFlags :
          Send(command, payload, flags)

(***************************************************************************)
(* The client and its session on the server: the frames of one are the     *)
(* input of the other.                                                     *)
(***************************************************************************)
\* the session of the client
Own == 1

IsLfm(message) == At(message, 1) = JsString("LFM")

\* an LFM frame without a map: null, which sendtoWebsocket leaves out of the frame
IsNullLfm(message) == At(message, 2).k # "map"

\* the map of an LFM frame, over the (system, talkgroup) pairs it lists
PayloadOf(message) ==
    IF IsNullLfm(message) THEN EmptyMap
    ELSE [p \in Entries(At(message, 2).m) |-> At(message, 2).m[p[1]][p[2]]]

LfmFrames(frames) == {i \in DOMAIN frames : IsLfm(frames[i])}

\* the last LFM frame of the handler that ran last
LastLfm(frames) == frames[CHOOSE i \in LfmFrames(frames) : \A j \in LfmFrames(frames) : j <= i]

\* that frame is on its way: the session has not read it yet
InFlight ==
    /\ LfmFrames(sent) # {}
    /\ Registered(Own)
    /\ ~CredentialExpired(Own)
    /\ sessLfm[Own] # LfmApplied(Permission(Own), PayloadOf(LastLfm(sent)), IsNullLfm(LastLfm(sent)))

\* the session reads the LFM frame of the client
DeliverLfm ==
    /\ LfmFrames(sent) # {}
    /\ ReceiveLfm(Own, PayloadOf(LastLfm(sent)), IsNullLfm(LastLfm(sent)))

\* the public config filtered to the permitted set
Permitted(cfg, list) ==
    [sys \in {x \in DOMAIN cfg : \E tg \in cfg[x] : Allows(list, x, tg)} |->
        {tg \in cfg[sys] : Allows(list, sys, tg)}]

\* the CFG frame the writer of the session wrote last reaches the client
DeliverConfig ==
    /\ ~InFlight
    /\ lastSent[Own] = "CFG"
    /\ sessCode[Own] \in DOMAIN Credentials
    /\ \E cfg \in Configs : ReceiveConfig(Permitted(cfg, Permission(Own)))

Has(c) == call = c \/ callPrevious = c \/ \E i \in DOMAIN callQueue : callQueue[i] = c

\* the live CAL frame the writer of the session wrote last reaches the client
DeliverCall ==
    /\ ~InFlight
    /\ lastSent[Own] = "CAL"
    /\ lastLive[Own] \in DOMAIN calls
    /\ ~Has(calls[lastLive[Own]])
    /\ ReceiveCall(calls[lastLive[Own]], << >>)

\* a reload of the configuration: every session in READY is sent the new CFG, whatever
\* its LivefeedMap
ReloadConfig ==
    /\ \E s \in Sessions : Registered(s)
    /\ \A s \in Sessions : \A i \in DOMAIN outQ[s] : outQ[s][i].tag # "CFG"
    /\ outQ' = [s \in Sessions |->
          IF Registered(s) THEN Enqueue(Out(s), Ctl("CFG")).q ELSE outQ[s]]
    /\ dropMark' = [s \in Sessions |->
          IF Registered(s) THEN Enqueue(Out(s), Ctl("CFG")).drop ELSE dropMark[s]]
    /\ UNCHANGED <<sessState, sessCode, sessLfm, closing, lastSent, lastLive, registry,
                   expired, calls, cur, todo, visiting, snap, nRequests>>
    /\ UNCHANGED notServer

\* the user acts once the frame of the last action has been read
UserLivefeed == ~InFlight /\ Livefeed

UserAvoid(sys, tg) == ~InFlight /\ Avoid(sys, tg, 0)

LinkOpen == sessState[Own] # "NONE" /\ Open

LinkNext ==
    \/ Connect(Own)
    \/ \E code \in DOMAIN Credentials : ReceivePin(Own, code)
    \/ Admit(Own)
    \/ LinkOpen
    \/ DeliverConfig
    \/ UserLivefeed
    \/ \E tg \in TalkgroupIds : UserAvoid(1, tg)
    \/ DeliverLfm
    \/ \E payload \in LfmPayloads : ReceiveLfm(Own, payload, FALSE)
    \/ \E shape \in CallShapes : Ingest(shape)
    \/ \E s \in Sessions : NotifyLoad(s)
    \/ \E s \in Sessions : NotifyVisit(s)
    \/ WriterSend(Own)
    \/ WriterClose(Own)
    \/ DeliverCall
    \/ ReloadConfig
    \/ \E code \in DOMAIN Credentials : Expire(code)

(***************************************************************************)
(* The playback/query service.  Its sources are not part of src/: this     *)
(* part follows spec.md sections 4.A and 4.G.                              *)
(***************************************************************************)
\* the number of calls of the archive in the model
MaxStored == 3

\* the fixed maximum the server caps the page size at (500 by default)
PageCap == 2

DateTimes == {1, 2, 3}

\* the calls inserted in the model: their dateTime, system and talkgroup
Insertions ==
    {[id |-> 0, dateTime |-> d, system |-> p[1], talkgroup |-> p[2]] :
        d \in DateTimes, p \in {<<1, 1>>, <<1, 2>>, <<2, 1>>}}

\* the options of a search: system and talkgroup (0: not given), sort, limit, offset
QueryOptions ==
    [system : {0, 1}, talkgroup : {0, 1}, sort : {-1, 1},
     limit : 0..(PageCap + 1), offset : 0..MaxStored]

NoQuery == [system |-> 0, talkgroup |-> 0, sort |-> 1, limit |-> 0, offset |-> 0]

NoWalk == [asked |-> FALSE, code |-> "", options |-> NoQuery, count |-> 0,
           pages |-> << >>]

QueryIdle ==
    /\ archive = << >>
    /\ walk = NoWalk

\* 4.A: the filters of searchCalls, system then talkgroup
Chosen(c, options) ==
    /\ options.system = 0 \/ c.system = options.system
    /\ options.talkgroup = 0 \/ c.talkgroup = options.talkgroup

\* a query service that hands the options to the store as they are
SelectedUnrestricted(list, options) ==
    {i \in 1..Len(archive) : Chosen(archive[i], options)}

\* 4.G: the filter is restricted to the permission allow-list before the store is called
Selected(list, options) ==
    {i \in 1..Len(archive) :
        /\ Chosen(archive[i], options)
        /\ Allows(list, archive[i].system, archive[i].talkgroup)}

\* 4.A: sorts by dateTime ascending (+1) or descending (-1); the order of two calls
\* of the same dateTime is not determined
InOrder(o, sort) ==
    \A i, j \in DOMAIN o :
        i < j => IF sort = 1 THEN archive[o[i]].dateTime <= archive[o[j]].dateTime
                             ELSE archive[o[i]].dateTime >= archive[o[j]].dateTime

Orders(ids, sort) ==
    {o \in [1..Cardinality(ids) -> ids] :
        /\ \A i, j \in DOMAIN o : i # j => o[i] # o[j]
        /\ InOrder(o, sort)}

\* 4.G: limit is the page size, capped at a fixed maximum
Capped(limit) == Least(limit, PageCap)

\* a store that skips one row more than the offset
PagedPastOffset(o, options) ==
    SubSeq(o, options.offset + 2, Least(options.offset + 1 + Capped(options.limit), Len(o)))

\* 4.A: paginates by limit/offset
Paged(o, options) ==
    SubSeq(o, options.offset + 1, Least(options.offset + Capped(options.limit), Len(o)))

\* insertCall: calls are append-only, ids ascend
Insert(c) ==
    /\ Len(archive) < MaxStored
    /\ ~walk.asked
    /\ archive' = Append(archive, [c EXCEPT !.id = Len(archive) + 1])
    /\ UNCHANGED walk
    /\ UNCHANGED notQuery

\* searchCalls(options, permission) -> {count, results} for a listener of the credential
FirstPage(code, options) ==
    /\ ~walk.asked
    /\ \E o \in Orders(Selected(Credentials[code].systems, options), options.sort) :
          walk' = [asked |-> TRUE, code |-> code, options |-> options,
                   count |-> Len(o), pages |-> <<Paged(o, options)>>]
    /\ UNCHANGED archive
    /\ UNCHANGED notQuery

\* the offset of the page after the pages asked for: offset, offset + limit, ...
Following == walk.options.offset + Len(walk.pages) * walk.options.limit

\* the listener asks for the next page of the same search
NextPage ==
    /\ walk.asked
    /\ walk.pages[Len(walk.pages)] # << >>
    /\ \E o \in Orders(Selected(Credentials[walk.code].systems, walk.options),
                       walk.options.sort) :
          walk' = [walk EXCEPT
                     !.count = Len(o),
                     !.pages = Append(@, Paged(o, [walk.options EXCEPT !.offset = Following]))]
    /\ UNCHANGED archive
    /\ UNCHANGED notQuery

\* the listener leaves the search
Leave ==
    /\ walk.asked
    /\ walk' = NoWalk
    /\ UNCHANGED archive
    /\ UNCHANGED notQuery

QueryNext ==
    \/ \E c \in Insertions : Insert(c)
    \/ \E code \in DOMAIN Credentials, options \in QueryOptions : FirstPage(code, options)
    \/ NextPage
    \/ Leave

(***************************************************************************)
(* The schema the chain of migrate() builds, statement by statement, and   *)
(* the rows seed() inserts: src/server/database.go.                        *)
(***************************************************************************)
\* a statement of a migration: what it does, the table, the other name it gives (an
\* index, a column, the new name of the table, the table rows are copied from), the
\* columns it lists, those it declares not null, the number of values of a select
Stmt(op, table, other, cols, required, width) ==
    [op |-> op, table |-> table, other |-> other, cols |-> cols, required |-> required,
     width |-> width, key |-> << >>]

CreateTable(table, cols, required) == Stmt("createTable", table, "", cols, required, 0)

\* create index `index` on `table` (key): the columns of the key, in their order
CreateIndex(index, table, key) ==
    [Stmt("createIndex", table, index, {key[i] : i \in DOMAIN key}, {}, 0) EXCEPT !.key = key]

\* drop index `i` (SQLite, PostgreSQL: table ""), drop index `i` on `t` (MySQL)
DropIndex(index, table) == Stmt("dropIndex", table, index, {}, {}, 0)

AddColumn(table, col, required) == Stmt("addColumn", table, col, {col}, required, 0)

DropColumn(table, col) == Stmt("dropColumn", table, col, {col}, {}, 0)

\* alter table t modify [column] c ... (MySQL), alter column c drop not null (PostgreSQL)
Modify(table, col, required) == Stmt("modify", table, col, {col}, required, 0)

DropTable(table) == Stmt("dropTable", table, "", {}, {}, 0)

Rename(table, to) == Stmt("rename", table, to, {}, {}, 0)

\* insert into `to` select cols and literals, width values in all, from `from`
CopyRows(to, from, cols, width) == Stmt("copy", to, from, cols, {}, width)

\* insert into t (cols) values (...)
InsertRow(table, cols) == Stmt("insert", table, "", cols, {}, 0)

\* select cols from t
Select(table, cols) == Stmt("select", table, "", cols, {}, 0)

Calls == "rdioScannerCalls"
Calls2 == "rdioScannerCalls2"
Systems == "rdioScannerSystems"
Systems2 == "rdioScannerSystems2"
Downstreams == "rdioScannerDownstreams"
Downstreams2 == "rdioScannerDownstreams2"
Talkgroups == "rdioScannerTalkgroups"
Units == "rdioScannerUnits"
Groups == "rdioScannerGroups"
Tags == "rdioScannerTags"

DateTimeSystemTalkgroup == "rdio_scanner_calls_date_time_system_talkgroup"
DateTimeSystemTalkgroup2 == "rdio_scanner_calls2_date_time_system_talkgroup"

\* the columns of rdioScannerCalls as created by migration20191029092201
CallsV1 ==
    {"id", "createdAt", "updatedAt", "audio", "emergency", "freq", "freqList", "startTime",
     "stopTime", "srcList", "system", "talkgroup"}

\* the columns of rdioScannerCalls2 of migration20200428132918 and migration20210115105958
CallsV4 ==
    {"id", "audio", "audioName", "audioType", "dateTime", "frequencies", "frequency",
     "source", "sources", "system", "talkgroup"}

CallsV4Required == {"audio", "dateTime", "frequencies", "sources", "system", "talkgroup"}

\* the columns of rdioScannerSystems of migration20210115105958
SystemsV5 ==
    {"_id", "autoPopulate", "blacklists", "id", "label", "led", "order", "talkgroups",
     "units"}

SystemsV6 == {"_id", "autoPopulate", "blacklists", "id", "label", "led", "order"}

DownstreamsV5 == {"_id", "apiKey", "disabled", "order", "systems", "url"}

TalkgroupsV6 ==
    {"_id", "frequency", "groupId", "id", "label", "led", "name", "order", "systemId",
     "tagId"}

UnitsV6 == {"_id", "id", "label", "order", "systemId"}

\* the dialects whose queries are those of the last branch of each migration
IsMysql(type) == type \in {"mariadb", "mysql"}

\* migration20191028144433
CreateSystem(type) ==
    << CreateTable(Systems, {"id", "createdAt", "updatedAt", "name", "system", "talkgroups"},
                   {"createdAt", "updatedAt", "name", "system", "talkgroups"}),
       CreateIndex("rdio_scanner_systems_system", Systems, <<"system">>) >>

\* migration20191029092201
CreateCall(type) ==
    << CreateTable(Calls, CallsV1, CallsV1 \ {"id"}),
       CreateIndex("rdio_scanner_calls_start_time", Calls, <<"startTime">>),
       CreateIndex("rdio_scanner_calls_system", Calls, <<"system">>),
       CreateIndex("rdio_scanner_calls_talkgroup", Calls, <<"talkgroup">>) >>

\* migration20191126135515
OptimizeCalls(type) ==
    << DropIndex("rdio_scanner_calls_system", IF IsMysql(type) THEN Calls ELSE ""),
       DropIndex("rdio_scanner_calls_talkgroup", IF IsMysql(type) THEN Calls ELSE "") >>

\* migration20191220093214
NewV3Tables(type) ==
    << AddColumn(Calls, "audioName", {}),
       AddColumn(Calls, "audioType", {}),
       AddColumn(Systems, "aliases", {"aliases"}) >>

\* migration20200123094105
OptimizeCallsAgain(type) ==
    << CreateIndex("rdio_scanner_calls_system", Calls, <<"system">>),
       CreateIndex("rdio_scanner_calls_system_talkgroup", Calls, <<"system", "talkgroup">>) >>

\* migration20200428132918
NewV4Tables(type) ==
    << DropTable(Systems),
       CreateTable(Calls2, CallsV4, CallsV4Required),
       CopyRows(Calls2, Calls,
                {"id", "audio", "audioName", "audioType", "startTime", "freqList", "freq",
                 "srcList", "system", "talkgroup"}, 11),
       DropTable(Calls),
       Rename(Calls2, Calls),
       CreateIndex(DateTimeSystemTalkgroup, Calls, <<"dateTime", "system", "talkgroup">>) >>

\* migration20210115105958
NewV51Tables(type) ==
    << CreateTable("rdioScannerAccesses",
                   {"_id", "code", "expiration", "ident", "limit", "order", "systems"},
                   {"code", "systems"}),
       CreateTable("rdioScannerApiKeys",
                   {"_id", "disabled", "ident", "key", "order", "systems"}, {"key", "systems"}),
       CreateTable(Calls2, CallsV4, CallsV4Required),
       CreateIndex(DateTimeSystemTalkgroup2, Calls2, <<"dateTime", "system", "talkgroup">>),
       CopyRows(Calls2, Calls, CallsV4, 11),
       DropTable(Calls),
       Rename(Calls2, Calls),
       CreateTable("rdioScannerConfigs", {"_id", "key", "val"}, {"key", "val"}),
       CreateIndex("rdio_scanner_configs_key", "rdioScannerConfigs", <<"key">>),
       CreateTable("rdioScannerDirWatches",
                   {"_id", "delay", "deleteAfter", "directory", "disabled", "extension",
                    "frequency", "mask", "order", "systemId", "talkgroupId", "type",
                    "usePolling"}, {"directory"}),
       CreateTable(Downstreams, DownstreamsV5, {"apiKey", "systems", "url"}),
       CreateTable(Groups, {"_id", "label"}, {"label"}),
       CreateTable("rdioScannerLogs", {"_id", "dateTime", "level", "message"},
                   {"dateTime", "level", "message"}),
       CreateIndex("rdio_scanner_logs_date_time_level", "rdioScannerLogs",
                   <<"dateTime", "level">>),
       CreateTable(Systems, SystemsV5, {"blacklists", "id", "label", "talkgroups", "units"}),
       CreateTable(Tags, {"_id", "label"}, {"label"}) >>

\* migration20210830092027
RenameIndex(type) ==
    IF IsMysql(type)
    THEN << Modify(Systems, "talkgroups", {"talkgroups"}),
            Modify(Systems, "units", {"units"}),
            DropIndex(DateTimeSystemTalkgroup2, Calls),
            CreateIndex(DateTimeSystemTalkgroup, Calls, <<"dateTime", "system", "talkgroup">>) >>
    ELSE << CreateTable(Systems2, SystemsV5,
                        {"blacklists", "id", "label", "talkgroups", "units"}),
            CopyRows(Systems2, Systems, SystemsV5, 9),
            DropTable(Systems),
            Rename(Systems2, Systems),
            DropIndex(DateTimeSystemTalkgroup2, ""),
            CreateIndex(DateTimeSystemTalkgroup, Calls, <<"dateTime", "system", "talkgroup">>) >>

\* migration20211202094819; "select *" lists the columns of the table it reads
AlterTable(type) ==
    << Rename(Downstreams, Downstreams2),
       CreateTable(Downstreams, DownstreamsV5, {"apiKey", "systems", "url"}),
       CopyRows(Downstreams, Downstreams2, DownstreamsV5, 6),
       DropTable(Downstreams2) >>

\* migration20220101070000, the queries it begins with
V610(type) ==
    IF type = "sqlite"
    THEN << CreateTable(Calls2, CallsV4 \cup {"patches"}, CallsV4Required \cup {"patches"}),
            CopyRows(Calls2, Calls, CallsV4, 12),
            DropTable(Calls),
            Rename(Calls2, Calls),
            CreateIndex(DateTimeSystemTalkgroup, Calls, <<"dateTime", "system", "talkgroup">>),
            CreateTable(Systems2, SystemsV6, {"blacklists", "id", "label"}),
            CopyRows(Systems2, Systems, SystemsV6, 7),
            DropTable(Systems),
            Rename(Systems2, Systems),
            CreateTable(Talkgroups, TalkgroupsV6,
                        {"groupId", "id", "label", "name", "systemId", "tagId"}),
            CreateIndex("rdio_scanner_talkgroups_system_id_id", Talkgroups, <<"systemId", "id">>),
            CreateTable(Units, UnitsV6, {"id", "label", "systemId"}),
            CreateIndex("rdio_scanner_units_system_id_id", Units, <<"systemId", "id">>) >>
    ELSE << AddColumn(Calls, "patches", {"patches"}),
            DropColumn(Systems, "talkgroups"),
            DropColumn(Systems, "units"),
            CreateTable(Talkgroups, TalkgroupsV6,
                        {"groupId", "id", "label", "name", "systemId", "tagId"}),
            CreateIndex("rdio_scanner_talkgroups_system_id_id", Talkgroups, <<"systemId", "id">>),
            CreateTable(Units, UnitsV6, {"id", "label", "systemId"}),
            CreateIndex("rdio_scanner_units_system_id_id", Units, <<"systemId", "id">>) >>

\* migration20220101070000: the query it reads the systems with, and the inserts it
\* appends for the talkgroups and the units of a system
ReadSystems == Select(Systems, {"id", "talkgroups", "units"})

InsertTalkgroup == InsertRow(Talkgroups, TalkgroupsV6 \ {"_id"})

InsertUnit == InsertRow(Units, UnitsV6 \ {"_id"})

\* migration20250321180900
AddAudioUrl(type) == << AddColumn(Calls, "audioUrl", {}) >>

\* the rebuild of the table on SQLite without its index
AudioColumnNullableUnindexed(type) ==
    IF type = "sqlite"
    THEN << CreateTable(Calls2, CallsV4 \cup {"patches", "audioUrl"},
                        (CallsV4Required \cup {"patches"}) \ {"audio"}),
            CopyRows(Calls2, Calls, CallsV4 \cup {"patches", "audioUrl"}, 13),
            DropTable(Calls),
            Rename(Calls2, Calls) >>
    ELSE << Modify(Calls, "audio", {}) >>

\* migration20250322153000
AudioColumnNullable(type) ==
    IF type = "sqlite"
    THEN << CreateTable(Calls2, CallsV4 \cup {"patches", "audioUrl"},
                        (CallsV4Required \cup {"patches"}) \ {"audio"}),
            CopyRows(Calls2, Calls, CallsV4 \cup {"patches", "audioUrl"}, 13),
            DropTable(Calls),
            Rename(Calls2, Calls),
            CreateIndex(DateTimeSystemTalkgroup, Calls, <<"dateTime", "system", "talkgroup">>) >>
    ELSE << Modify(Calls, "audio", {}) >>

\* the queries of migration m of the chain for the dialect
Schemas(type, m) ==
    CASE m = 1 -> CreateSystem(type)
      [] m = 2 -> CreateCall(type)
      [] m = 3 -> OptimizeCalls(type)
      [] m = 4 -> NewV3Tables(type)
      [] m = 5 -> OptimizeCallsAgain(type)
      [] m = 6 -> NewV4Tables(type)
      [] m = 7 -> NewV51Tables(type)
      [] m = 8 -> RenameIndex(type)
      [] m = 9 -> AlterTable(type)
      [] m = 10 -> V610(type)
      [] m = 11 -> AddAudioUrl(type)
      [] m = 12 -> AudioColumnNullable(type)

EmptyCatalog == [tables |-> [t \in {} |-> [cols |-> {}, required |-> {}]], indexes |-> {}]

HasTable(cat, table) == table \in DOMAIN cat.tables

\* the indexes a statement means by a name: SQLite and PostgreSQL name an index within
\* the database, MySQL within its table
Named(cat, index, table) ==
    {x \in cat.indexes : x.name = index /\ (table = "" \/ x.table = table)}

\* the tables a statement reads or changes
TablesOf(st) ==
    CASE st.op = "createTable" -> {}
      [] st.op = "dropIndex" -> {st.table} \ {""}
      [] st.op = "copy" -> {st.table, st.other}
      [] OTHER -> {st.table}

\* the table whose columns the statement lists
ColumnsIn(st) ==
    CASE st.op = "copy" -> st.other
      [] st.op \in {"createIndex", "dropColumn", "modify", "insert", "select"} -> st.table
      [] OTHER -> ""

\* what the statement refers to that the database does not have: tables, columns
\* (as table.column), indexes
Absent(cat, st) ==
    {t \in TablesOf(st) : ~HasTable(cat, t)}
    \cup (IF ColumnsIn(st) # "" /\ HasTable(cat, ColumnsIn(st))
          THEN {c \in st.cols : c \notin cat.tables[ColumnsIn(st)].cols}
          ELSE {})
    \cup (IF st.op = "dropIndex" /\ Named(cat, st.other, st.table) = {}
          THEN {st.other} ELSE {})

\* what the statement creates that the database has already, and a select whose
\* values are not one for each column of the table they go to
Clashing(type, cat, st) ==
    (IF st.op = "createTable" /\ HasTable(cat, st.table) THEN {st.table} ELSE {})
    \cup (IF st.op = "rename" /\ HasTable(cat, st.other) THEN {st.other} ELSE {})
    \cup (IF st.op = "createIndex"
             /\ Named(cat, st.other, IF IsMysql(type) THEN st.table ELSE "") # {}
          THEN {st.other} ELSE {})
    \cup (IF st.op = "addColumn" /\ HasTable(cat, st.table)
             /\ st.other \in cat.tables[st.table].cols
          THEN {st.other} ELSE {})
    \cup (IF st.op = "copy" /\ HasTable(cat, st.table)
             /\ Cardinality(cat.tables[st.table].cols) # st.width
          THEN {st.table} ELSE {})

Without(f, key) == [k \in DOMAIN f \ {key} |-> f[k]]

\* the database after the statement, which refers to nothing that is missing
Effect(cat, st) ==
    CASE st.op = "createTable" ->
            [cat EXCEPT !.tables = (st.table :> [cols |-> st.cols, required |-> st.required]) @@ @]
      [] st.op = "createIndex" ->
            [cat EXCEPT !.indexes = @ \cup {[name |-> st.other, table |-> st.table, key |-> st.key]}]
      [] st.op = "dropIndex" ->
            [cat EXCEPT !.indexes = @ \ Named(cat, st.other, st.table)]
      [] st.op = "addColumn" ->
            [cat EXCEPT !.tables[st.table].cols = @ \cup {st.other},
                        !.tables[st.table].required = @ \cup st.required]
      [] st.op = "dropColumn" ->
            [cat EXCEPT !.tables[st.table].cols = @ \ {st.other},
                        !.tables[st.table].required = @ \ {st.other}]
      [] st.op = "modify" ->
            [cat EXCEPT !.tables[st.table].required = (@ \ {st.other}) \cup st.required]
      [] st.op = "dropTable" ->
            [tables |-> Without(cat.tables, st.table),
             indexes |-> {x \in cat.indexes : x.table # st.table}]
      [] st.op = "rename" ->
            [tables |-> (st.other :> cat.tables[st.table]) @@ Without(cat.tables, st.table),
             indexes |-> {IF x.table = st.table THEN [x EXCEPT !.table = st.other] ELSE x :
                             x \in cat.indexes}]
      [] OTHER -> cat

\* the starts of the server in the model, and the rows an administrator keeps in a table
MaxStarts == 2
MaxRows == 2

Meta == "rdioScannerMeta"

\* defaults.groups and defaults.tags
DefaultGroups == <<"group A", "group B">>
DefaultTags == <<"tag A", "tag B">>

\* the labels an administrator adds
AdminLabels == {"custom", "group A"}

Position(phase, m, i, queries, before) ==
    [phase |-> phase, m |-> m, i |-> i, queries |-> queries, before |-> before]

Idle == Position("idle", 0, 0, << >>, EmptyCatalog)

SchemaIdle ==
    /\ catalog = EmptyCatalog
    /\ meta = {}
    /\ at = Idle
    /\ unknown = {}
    /\ unread = {}
    /\ groupRows = << >>
    /\ tagRows = << >>
    /\ starts = 0

\* NewDatabase is called: the server starts on the database as the last start left it
Start ==
    /\ at.phase \in {"idle", "returned", "fatal"}
    /\ starts < MaxStarts
    /\ starts' = starts + 1
    /\ at' = Position("prepare", 0, 0, << >>, EmptyCatalog)
    /\ UNCHANGED <<catalog, meta, unknown, unread, groupRows, tagRows>>
    /\ UNCHANGED <<notSchema, dbVars>>

\* prepareMigration on a database without SequelizeMeta: rdioScannerMeta is created
\* unless it exists
PrepareMeta ==
    /\ at.phase = "prepare"
    /\ catalog' = IF HasTable(catalog, Meta) THEN catalog
                  ELSE Effect(catalog, CreateTable(Meta, {"name"}, {"name"}))
    /\ at' = Position("migration", 1, 0, << >>, EmptyCatalog)
    /\ UNCHANGED <<meta, unknown, unread, groupRows, tagRows, starts>>
    /\ UNCHANGED <<notSchema, dbVars>>

\* migrate(): the chain goes on with migration m + 1, seed() follows the last
Onward(m) ==
    IF m = NumMigrations THEN Position("seedGroups", 0, 0, << >>, EmptyCatalog)
    ELSE Position("migration", m + 1, 0, << >>, EmptyCatalog)

\* the inserts migration20220101070000 appends when its query has read a system with a
\* talkgroup, with a unit
Appends(talkgroup, unit) ==
    (IF talkgroup THEN <<InsertTalkgroup>> ELSE << >>) \o (IF unit THEN <<InsertUnit>> ELSE << >>)

\* migration m is called: it builds its queries (migration20220101070000 reads the
\* systems first, and goes on without them if the query fails), then migrateWithSchema
\* looks its name up in rdioScannerMeta and begins a transaction if it is not there
Migrate(talkgroup, unit) ==
    /\ at.phase = "migration"
    /\ LET m == at.m
           reads == m = LegacyMigration
           lost == IF reads THEN Absent(catalog, ReadSystems) ELSE {}
       IN /\ (talkgroup \/ unit) => reads /\ lost = {}
          /\ unread' = unread \cup lost
          /\ at' = IF m \in meta THEN Onward(m)
                   ELSE Position("exec", m, 1, Schemas(dbType, m) \o Appends(talkgroup, unit),
                                 catalog)
    /\ UNCHANGED <<catalog, meta, unknown, groupRows, tagRows, starts>>
    /\ UNCHANGED <<notSchema, dbVars>>

\* tx.Exec of the next query of the migration: a query that refers to something
\* missing, or creates what exists, returns an error: tx.Rollback, log.Fatal
Exec ==
    /\ at.phase = "exec"
    /\ LET st == at.queries[at.i]
           bad == Absent(catalog, st) \cup Clashing(dbType, catalog, st)
       IN IF bad # {}
          THEN /\ unknown' = unknown \cup {[m |-> at.m, i |-> at.i, op |-> st.op,
                                            absent |-> Absent(catalog, st),
                                            clashing |-> Clashing(dbType, catalog, st)]}
               /\ catalog' = IF ImplicitCommit(dbType) THEN catalog ELSE at.before
               /\ at' = Position("fatal", at.m, at.i, << >>, EmptyCatalog)
          ELSE /\ catalog' = Effect(catalog, st)
               /\ at' = IF at.i = Len(at.queries) THEN [at EXCEPT !.phase = "record"]
                        ELSE [at EXCEPT !.i = @ + 1]
               /\ UNCHANGED unknown
    /\ UNCHANGED <<meta, unread, groupRows, tagRows, starts>>
    /\ UNCHANGED <<notSchema, dbVars>>

\* insert into rdioScannerMeta, tx.Commit
Record ==
    /\ at.phase = "record"
    /\ meta' = meta \cup {at.m}
    /\ at' = Onward(at.m)
    /\ UNCHANGED <<catalog, unknown, unread, groupRows, tagRows, starts>>
    /\ UNCHANGED <<notSchema, dbVars>>

\* what can happen to seedGroups and to seedTags: the count query fails, Begin fails,
\* insert k + 1 fails after k inserts, Commit fails, or nothing fails
SeedOutcomes == {"ok", "countFail", "beginFail", "insertFail", "commitFail"}

\* a seed that inserts the defaults whatever the count is
seedLabelsAlways(rows, defaults, outcome, k) ==
    IF outcome = "countFail" THEN [rows |-> rows, err |-> TRUE]
    ELSE IF outcome = "beginFail" THEN [rows |-> rows, err |-> TRUE]
    ELSE IF outcome = "insertFail" THEN [rows |-> rows, err |-> TRUE]
    ELSE IF outcome = "commitFail" THEN [rows |-> rows, err |-> TRUE]
    ELSE [rows |-> rows \o defaults, err |-> FALSE]

\* seedGroups, seedTags: select count(*); if count == 0: Begin, one insert for each
\* default, each followed by Rollback and return if it fails, Commit
seedLabels(rows, defaults, outcome, k) ==
    IF outcome = "countFail" THEN [rows |-> rows, err |-> TRUE]
    ELSE IF Len(rows) # 0 THEN [rows |-> rows, err |-> FALSE]
    ELSE IF outcome = "beginFail" THEN [rows |-> rows, err |-> TRUE]
    ELSE IF outcome = "insertFail" THEN [rows |-> rows, err |-> TRUE]
    ELSE IF outcome = "commitFail" THEN [rows |-> rows, err |-> TRUE]
    ELSE [rows |-> rows \o SubSeq(defaults, 1, Len(defaults)), err |-> FALSE]

\* the calls the model makes: k counts only for a failing insert, and a seed that finds
\* rows reaches neither Begin nor an insert
Seedable(rows, defaults, outcome, k) ==
    /\ outcome = "insertFail" => k \in 0..(Len(defaults) - 1)
    /\ outcome # "insertFail" => k = 0
    /\ Len(rows) # 0 => outcome \in {"ok", "countFail"}

\* seed(): seedGroups
seedGroups(outcome, k) ==
    /\ at.phase = "seedGroups"
    /\ Seedable(groupRows, DefaultGroups, outcome, k)
    /\ LET res == seedLabels(groupRows, DefaultGroups, outcome, k)
       IN /\ groupRows' = res.rows
          /\ at' = IF res.err THEN Position("fatal", 0, 0, << >>, EmptyCatalog)
                   ELSE Position("seedTags", 0, 0, << >>, EmptyCatalog)
    /\ UNCHANGED <<catalog, meta, unknown, unread, tagRows, starts>>
    /\ UNCHANGED <<notSchema, dbVars>>

\* seed(): seedTags, then NewDatabase returns
seedTags(outcome, k) ==
    /\ at.phase = "seedTags"
    /\ Seedable(tagRows, DefaultTags, outcome, k)
    /\ LET res == seedLabels(tagRows, DefaultTags, outcome, k)
       IN /\ tagRows' = res.rows
          /\ at' = IF res.err THEN Position("fatal", 0, 0, << >>, EmptyCatalog)
                   ELSE Position("returned", 0, 0, << >>, EmptyCatalog)
    /\ UNCHANGED <<catalog, meta, unknown, unread, groupRows, starts>>
    /\ UNCHANGED <<notSchema, dbVars>>

\* the administrator adds a group or a tag while the server runs
AdminInsert(table, label) ==
    /\ at.phase = "returned"
    /\ IF table = Groups
       THEN /\ Len(groupRows) < MaxRows
            /\ groupRows' = Append(groupRows, label)
            /\ UNCHANGED tagRows
       ELSE /\ Len(tagRows) < MaxRows
            /\ tagRows' = Append(tagRows, label)
            /\ UNCHANGED groupRows
    /\ UNCHANGED <<catalog, meta, at, unknown, unread, starts>>
    /\ UNCHANGED <<notSchema, dbVars>>

\* the administrator deletes the first group or tag
AdminDelete(table) ==
    /\ at.phase = "returned"
    /\ IF table = Groups
       THEN /\ groupRows # << >>
            /\ groupRows' = Tail(groupRows)
            /\ UNCHANGED tagRows
       ELSE /\ tagRows # << >>
            /\ tagRows' = Tail(tagRows)
            /\ UNCHANGED groupRows
    /\ UNCHANGED <<catalog, meta, at, unknown, unread, starts>>
    /\ UNCHANGED <<notSchema, dbVars>>

SchemaNext ==
    \/ Start
    \/ PrepareMeta
    \/ \E talkgroup, unit \in BOOLEAN : Migrate(talkgroup, unit)
    \/ Exec
    \/ Record
    \/ \E outcome \in SeedOutcomes, k \in 0..1 : seedGroups(outcome, k)
    \/ \E outcome \in SeedOutcomes, k \in 0..1 : seedTags(outcome, k)
    \/ \E table \in {Groups, Tags}, label \in AdminLabels : AdminInsert(table, label)
    \/ \E table \in {Groups, Tags} : AdminDelete(table)

(***************************************************************************)
(* The ingestion front.  The server sources are not part of src/: this     *)
(* part follows spec.md sections 3, 4.F and 4.H.                           *)
(***************************************************************************)
MaxSubmissions == 2

\* ApiKey: {key, disabled, systems}
ApiKeys ==
    [k \in {"open", "narrow", "off"} |->
        CASE k = "open" -> [disabled |-> FALSE, systems |-> AllowAll]
          [] k = "narrow" -> [disabled |-> FALSE, systems |-> AllowSys1Tg2]
          [] k = "off" -> [disabled |-> TRUE, systems |-> AllowSys1Tg2]]

\* the apiKey a submission carries: one of the keys, or a secret that is no key
PresentedKeys == DOMAIN ApiKeys \cup {"none"}

\* Downstream: {url, disabled, systems}
Peers ==
    [d \in {"peerAll", "peerNarrow", "peerOff"} |->
        CASE d = "peerAll" -> [disabled |-> FALSE, systems |-> AllowAll]
          [] d = "peerNarrow" -> [disabled |-> FALSE, systems |-> AllowSys1Tg2]
          [] d = "peerOff" -> [disabled |-> TRUE, systems |-> AllowAll]]

\* the audio of a submission: a non-empty blob, a URL string, or neither
Audios == {"blob", "url", "empty"}

Submissions == [apiKey : PresentedKeys, system : SystemIds, talkgroup : TalkgroupIds, audio : Audios]

NoSubmission == [apiKey |-> "none", system |-> 0, talkgroup |-> 0, audio |-> "empty"]

\* System 1 is configured with its talkgroup 1; system 2 is not configured
Directory(autoPopulate) ==
    [sys \in {1} |-> [autoPopulate |-> autoPopulate, blacklists |-> {}, talkgroups |-> {1}]]

IngestIdle ==
    /\ known = Directory(FALSE)
    /\ persisted = << >>
    /\ notified = << >>
    /\ scheduled = {}
    /\ answer = [submission |-> NoSubmission, status |-> "", id |-> 0]
    /\ submitted = 0

IngestInit ==
    /\ known \in {Directory(FALSE), Directory(TRUE)}
    /\ persisted = << >>
    /\ notified = << >>
    /\ scheduled = {}
    /\ answer = [submission |-> NoSubmission, status |-> "", id |-> 0]
    /\ submitted = 0

\* 1. apiKey resolves to an enabled ApiKey
KeyEnabled(sub) == sub.apiKey \in DOMAIN ApiKeys /\ ~ApiKeys[sub.apiKey].disabled

\* 2. {system, talkgroup} is within the ApiKey's allow-list
KeyAllows(sub) == Allows(ApiKeys[sub.apiKey].systems, sub.system, sub.talkgroup)

\* 3. the System exists, or is created when the allow-list is "*" and auto-populate is
\* permitted; auto is the autoPopulate of the System that is created
WithSystem(dir, sub, permitted, auto) ==
    IF sub.system \in DOMAIN dir THEN dir
    ELSE IF ApiKeys[sub.apiKey].systems.star /\ permitted
         THEN (sub.system :> [autoPopulate |-> auto, blacklists |-> {}, talkgroups |-> {}]) @@ dir
         ELSE dir

\* 4. the Talkgroup exists under the System, or a stub is created when
\* System.autoPopulate is true
WithTalkgroup(dir, sub) ==
    IF sub.talkgroup \in dir[sub.system].talkgroups THEN dir
    ELSE IF dir[sub.system].autoPopulate
         THEN [dir EXCEPT ![sub.system].talkgroups = @ \cup {sub.talkgroup}]
         ELSE dir

\* 5. audio is a non-empty blob or a URL string
AudioValid(sub) == sub.audio \in {"blob", "url"}

\* the validation with the allow-list looked at before the key is known to be enabled
ValidateAllowListFirst(dir, sub, permitted, auto) ==
    IF sub.apiKey \notin DOMAIN ApiKeys THEN [status |-> "401", known |-> dir]
    ELSE IF ~KeyAllows(sub) THEN [status |-> "403", known |-> dir]
    ELSE IF ~KeyEnabled(sub) THEN [status |-> "401", known |-> dir]
    ELSE LET dir3 == WithSystem(dir, sub, permitted, auto)
         IN IF sub.system \notin DOMAIN dir3 THEN [status |-> "reject", known |-> dir3]
            ELSE LET dir4 == WithTalkgroup(dir3, sub)
                 IN IF sub.talkgroup \notin dir4[sub.system].talkgroups
                    THEN [status |-> "403", known |-> dir4]
                    ELSE IF ~AudioValid(sub) THEN [status |-> "400", known |-> dir4]
                    ELSE [status |-> "ok", known |-> dir4]

\* the validation order of 4.F: the first failing check decides; a reject without a
\* status in the spec is "reject"
Validate(dir, sub, permitted, auto) ==
    IF ~KeyEnabled(sub) THEN [status |-> "401", known |-> dir]
    ELSE IF ~KeyAllows(sub) THEN [status |-> "403", known |-> dir]
    ELSE LET dir3 == WithSystem(dir, sub, permitted, auto)
         IN IF sub.system \notin DOMAIN dir3 THEN [status |-> "reject", known |-> dir3]
            ELSE LET dir4 == WithTalkgroup(dir3, sub)
                 IN IF sub.talkgroup \notin dir4[sub.system].talkgroups
                    THEN [status |-> "403", known |-> dir4]
                    ELSE IF ~AudioValid(sub) THEN [status |-> "400", known |-> dir4]
                    ELSE [status |-> "ok", known |-> dir4]

\* 4.H: the enabled Downstreams whose allow-list admits {system, talkgroup}
MatchingPeers(sub) ==
    {d \in DOMAIN Peers : ~Peers[d].disabled /\ Allows(Peers[d].systems, sub.system, sub.talkgroup)}

\* a call submission: validation, then 6. persist via 4.A and, on success, notifyCall
\* and the forwards scheduled for the matching downstreams
Submit(sub, permitted, auto, persists) ==
    /\ submitted < MaxSubmissions
    /\ submitted' = submitted + 1
    /\ LET res == Validate(known, sub, permitted, auto)
           id == Len(persisted) + 1
       IN /\ known' = res.known
          /\ IF res.status # "ok"
             THEN /\ answer' = [submission |-> sub, status |-> res.status, id |-> 0]
                  /\ UNCHANGED <<persisted, notified, scheduled>>
             ELSE IF ~persists
             THEN /\ answer' = [submission |-> sub, status |-> "500", id |-> 0]
                  /\ UNCHANGED <<persisted, notified, scheduled>>
             ELSE /\ persisted' = Append(persisted, [id |-> id, system |-> sub.system,
                                               talkgroup |-> sub.talkgroup])
                  /\ notified' = Append(notified, id)
                  /\ scheduled' = scheduled \cup {<<d, id>> : d \in MatchingPeers(sub)}
                  /\ answer' = [submission |-> sub, status |-> "200", id |-> id]
    /\ UNCHANGED notIngest

IngestNext ==
    \E sub \in Submissions, permitted \in BOOLEAN, auto \in BOOLEAN, persists \in BOOLEAN :
        Submit(sub, permitted, auto, persists)

(***************************************************************************)
(* The audio of the client: play, queue, replay, skip, stop, pause and the *)
(* completions of fetchAudioBuffer and decodeAudioData.                    *)
(***************************************************************************)
MaxInFlight == 2

\* the calls of the model, by id: 1 and 3 carry audio data, 2 carries an audioUrl
AudioIds == {1, 2, 3}

HasAudioData(id) == id \in {1, 3}

Stages == {"fetch", "decode"}

NoneInFlight == [w \in AudioIds \X Stages |-> 0]

AudioIdle ==
    player = [call |-> 0, callPrevious |-> 0, callQueue |-> << >>, audioSource |-> 0,
              sources |-> 0, inFlight |-> NoneInFlight, livefeedPaused |-> FALSE,
              skipDelay |-> FALSE, livefeedMode |-> "offline", arrived |-> {}]

\* the fetches and decodes under way
Under(pl) ==
    LET RECURSIVE Sum(_)
        Sum(ws) == IF ws = {} THEN 0
                   ELSE LET w == CHOOSE x \in ws : TRUE IN pl.inFlight[w] + Sum(ws \ {w})
    IN Sum(AudioIds \X Stages)

Started(pl, id, stage) == [pl EXCEPT !.inFlight[<<id, stage>>] = @ + 1]

Completed(pl, id, stage) == [pl EXCEPT !.inFlight[<<id, stage>>] = @ - 1]

\* stop(): the source is stopped and forgotten, the call becomes callPrevious
auStop(pl) ==
    [pl EXCEPT !.sources = IF pl.audioSource # 0 THEN @ - 1 ELSE @,
               !.audioSource = 0,
               !.callPrevious = IF pl.call # 0 THEN pl.call ELSE @,
               !.call = 0]

\* decodeAndPlay(arrayBuffer): nothing without a call, else decodeAudioData is started
decodeAndPlay(pl, id) == IF pl.call = 0 THEN pl ELSE Started(pl, id, "decode")

\* a play() that does not look at livefeedPaused
auPlayWhilePaused(pl, given) ==
    IF pl.skipDelay THEN pl
    ELSE IF given = 0 /\ pl.call # 0 THEN pl
    ELSE IF given # 0 /\ ~HasAudioData(given) /\ pl.call # 0 THEN pl
    ELSE LET taken ==
                 IF given # 0 /\ HasAudioData(given)
                 THEN [(IF pl.call # 0 THEN auStop(pl) ELSE pl) EXCEPT !.call = given]
                 ELSE IF pl.callQueue = << >> THEN pl
                 ELSE [pl EXCEPT !.call = Head(pl.callQueue), !.callQueue = Tail(@)]
         IN IF taken.call = 0 THEN taken
            ELSE IF HasAudioData(taken.call) THEN decodeAndPlay(taken, taken.call)
            ELSE Started(taken, taken.call, "fetch")

\* play(call): nothing while paused or in the delay of a skip; the call given if it
\* carries audio data (the current call is stopped), else the current call stays, else
\* the head of the queue; then the audio of this.call is fetched or decoded
auPlay(pl, given) ==
    IF pl.livefeedPaused \/ pl.skipDelay THEN pl
    ELSE IF given = 0 /\ pl.call # 0 THEN pl
    ELSE IF given # 0 /\ ~HasAudioData(given) /\ pl.call # 0 THEN pl
    ELSE LET taken ==
                 IF given # 0 /\ HasAudioData(given)
                 THEN [(IF pl.call # 0 THEN auStop(pl) ELSE pl) EXCEPT !.call = given]
                 ELSE IF pl.callQueue = << >> THEN pl
                 ELSE [pl EXCEPT !.call = Head(pl.callQueue), !.callQueue = Tail(@)]
         IN IF taken.call = 0 THEN taken
            ELSE IF HasAudioData(taken.call) THEN decodeAndPlay(taken, taken.call)
            ELSE Started(taken, taken.call, "fetch")

\* queue(call, {priority}): nothing when offline; unshift or push; play() unless a
\* source or a call is there, or the player is paused or in the delay of a skip
auQueue(pl, id, priority) ==
    IF pl.livefeedMode = "offline" THEN pl
    ELSE LET pushed == [pl EXCEPT !.callQueue = IF priority THEN <<id>> \o @ ELSE Append(@, id)]
         IN IF pl.audioSource # 0 \/ pl.call # 0 \/ pl.livefeedPaused \/ pl.skipDelay
            THEN pushed
            ELSE auPlay(pushed, 0)

\* what playbackNextCall does to the player, with no call and nothing pending: it asks
\* for a call or a page, or it leaves playback mode (stopPlaybackMode, and
\* startLivefeed when config.playbackGoesLive is set)
Outcomes == {"asks", "offline", "online"}

auPlaybackNextCall(pl, outcome) ==
    IF outcome = "asks" THEN pl
    ELSE auStop([pl EXCEPT !.livefeedMode = outcome, !.callQueue = << >>])

\* the play of skip(): playbackNextCall in playback mode, play() otherwise
auNext(pl, outcome) ==
    IF pl.livefeedMode = "playback" THEN auPlaybackNextCall(pl, outcome) ELSE auPlay(pl, 0)

\* skip({delay}): stop; with a delay the timer of skipDelay is armed, else the timer is
\* unsubscribed and the next call is played
auSkip(pl, delay, outcome) ==
    IF delay THEN [auStop(pl) EXCEPT !.skipDelay = TRUE]
    ELSE auNext([auStop(pl) EXCEPT !.skipDelay = FALSE], outcome)

\* the success callback of decodeAudioData: nothing if there is a source or no call,
\* else a source is created on the buffer and started
decoded(pl, id) ==
    IF pl.audioSource # 0 \/ pl.call = 0 THEN pl
    ELSE [pl EXCEPT !.audioSource = id, !.sources = @ + 1]

\* in playback mode the outcome of playbackNextCall counts, elsewhere it does not
Fits(pl, outcome) == pl.livefeedMode # "playback" => outcome = "asks"

Plays(pl) ==
    /\ player' = pl
    /\ UNCHANGED notAudio

\* a CAL message arrives: a live call, or the reply to loadAndPlay (priority)
Arrive(id, priority) ==
    /\ id \notin player.arrived
    /\ Under(player) < MaxInFlight
    /\ Plays(auQueue([player EXCEPT !.arrived = @ \cup {id}], id, priority))

\* the user skips
UserSkip(outcome) ==
    /\ Fits(player, outcome)
    /\ Under(player) < MaxInFlight
    /\ Plays(auSkip(player, FALSE, outcome))

\* the user stops the call
UserStop ==
    /\ player.call # 0
    /\ Plays(auStop(player))

\* replay(): play(this.call || this.callPrevious)
Replay ==
    /\ player.call # 0 \/ player.callPrevious # 0
    /\ Under(player) < MaxInFlight
    /\ Plays(auPlay(player, IF player.call # 0 THEN player.call ELSE player.callPrevious))

\* pause(): the context is suspended, or resumed and play()
Pause ==
    /\ Under(player) < MaxInFlight
    /\ Plays(IF player.livefeedPaused THEN auPlay([player EXCEPT !.livefeedPaused = FALSE], 0)
             ELSE [player EXCEPT !.livefeedPaused = TRUE])

\* livefeed(): startLivefeed when offline, stopLivefeed or stopPlaybackMode otherwise
AudioLivefeed ==
    Plays(IF player.livefeedMode = "offline" THEN [player EXCEPT !.livefeedMode = "online"]
          ELSE auStop([player EXCEPT !.livefeedMode = "offline", !.callQueue = << >>]))

\* loadAndPlay(id): the delay of a skip is unsubscribed, stop, offline -> playback
AudioLoadAndPlay ==
    Plays([auStop([player EXCEPT !.skipDelay = FALSE]) EXCEPT
              !.livefeedMode = IF @ = "offline" THEN "playback" ELSE @])

\* fetchAudioBuffer resolves: decodeAndPlay
FetchDone(id) ==
    /\ player.inFlight[<<id, "fetch">>] > 0
    /\ Plays(decodeAndPlay(Completed(player, id, "fetch"), id))

\* fetchAudioBuffer rejects, or decodeAudioData fails: skip({delay: false})
Fails(id, stage, outcome) ==
    /\ player.inFlight[<<id, stage>>] > 0
    /\ Fits(player, outcome)
    /\ Plays(auSkip(Completed(player, id, stage), FALSE, outcome))

\* decodeAudioData succeeds
DecodeDone(id) ==
    /\ player.inFlight[<<id, "decode">>] > 0
    /\ Plays(decoded(Completed(player, id, "decode"), id))

\* the source has played to its end: onended, skip({delay: true})
SourceEnded ==
    /\ player.audioSource # 0
    /\ ~player.livefeedPaused
    /\ Plays(auSkip(player, TRUE, "asks"))

\* the timer of skipDelay fires
DelayFires(outcome) ==
    /\ player.skipDelay
    /\ Fits(player, outcome)
    /\ Under(player) < MaxInFlight
    /\ Plays(auNext([player EXCEPT !.skipDelay = FALSE], outcome))

AudioNext ==
    \/ \E id \in AudioIds, priority \in BOOLEAN : Arrive(id, priority)
    \/ \E outcome \in Outcomes : UserSkip(outcome)
    \/ UserStop
    \/ Replay
    \/ Pause
    \/ AudioLivefeed
    \/ AudioLoadAndPlay
    \/ \E id \in AudioIds : FetchDone(id)
    \/ \E id \in AudioIds, stage \in Stages, outcome \in Outcomes : Fails(id, stage, outcome)
    \/ \E id \in AudioIds : DecodeDone(id)
    \/ SourceEnded
    \/ \E outcome \in Outcomes : DelayFires(outcome)

(***************************************************************************)
(* The specifications.                                                     *)
(***************************************************************************)
InitServer == ServerInit /\ DbIdle /\ ClientIdle /\ QueryIdle /\ SchemaIdle /\ IngestIdle /\ AudioIdle

InitDb == DbInit /\ ServerInit /\ ClientIdle /\ QueryIdle /\ SchemaIdle /\ IngestIdle /\ AudioIdle

InitClient == ClientInit /\ ServerInit /\ DbIdle /\ QueryIdle /\ SchemaIdle /\ IngestIdle /\ AudioIdle

SpecServer == InitServer /\ [][ServerNext]_vars

SpecDb == InitDb /\ [][DbNext]_vars

SpecClient == InitClient /\ [][ClientNext]_vars

InitCalls == ClientInit /\ ServerInit /\ DbIdle /\ QueryIdle /\ SchemaIdle /\ IngestIdle /\ AudioIdle

SpecCalls == InitCalls /\ [][CallsNext]_vars

InitSocket == ClientInit /\ ServerInit /\ DbIdle /\ QueryIdle /\ SchemaIdle /\ IngestIdle /\ AudioIdle

\* the timer of onclose fires two seconds after it was armed
SpecSocket == InitSocket /\ [][SocketNext]_vars /\ WF_vars(Reconnect)

InitPlayback == ClientInit /\ ServerInit /\ DbIdle /\ QueryIdle /\ SchemaIdle /\ IngestIdle /\ AudioIdle

SpecPlayback == InitPlayback /\ [][PlaybackNext]_vars

InitFrames == ClientInit /\ ServerInit /\ DbIdle /\ QueryIdle /\ SchemaIdle /\ IngestIdle /\ AudioIdle

SpecFrames == InitFrames /\ [][FramesNext]_vars

InitLink == ClientInit /\ ServerInit /\ DbIdle /\ QueryIdle /\ SchemaIdle /\ IngestIdle /\ AudioIdle

SpecLink == InitLink /\ [][LinkNext]_vars

InitQuery == ClientInit /\ ServerInit /\ DbIdle /\ QueryIdle /\ SchemaIdle /\ IngestIdle /\ AudioIdle

SpecQuery == InitQuery /\ [][QueryNext]_vars

\* the server starts on an empty database of one of the dialects
InitSchema ==
    /\ ClientInit /\ ServerInit /\ QueryIdle /\ SchemaIdle /\ IngestIdle /\ AudioIdle
    /\ dbType \in DbTypes
    /\ store = EmptyStore
    /\ pc = "idle"
    /\ nextMig = 0
    /\ attempted = {}
    /\ seedRan = FALSE
    /\ last = NoMigration
    /\ firstOk = NotYet
    /\ runs = 0
    /\ failures = 0

SpecSchema == InitSchema /\ [][SchemaNext]_vars

InitIngest == ClientInit /\ ServerInit /\ DbIdle /\ QueryIdle /\ SchemaIdle /\ IngestInit /\ AudioIdle

SpecIngest == InitIngest /\ [][IngestNext]_vars

InitAudio == ClientInit /\ ServerInit /\ DbIdle /\ QueryIdle /\ SchemaIdle /\ IngestIdle /\ AudioIdle

SpecAudio == InitAudio /\ [][AudioNext]_vars

InitReplies == ClientInit /\ ServerInit /\ DbIdle /\ QueryIdle /\ SchemaIdle /\ IngestIdle /\ AudioIdle

SpecReplies == InitReplies /\ [][RepliesNext]_vars

\* the walk of the pages, a page with no call among them
WalkNext == PlaybackNext \/ ReceiveEmptyList

\* the server answers every request and the audio of a call comes to its end
SpecWalkFair ==
    /\ InitReplies /\ [][WalkNext]_vars
    /\ WF_vars(ReceiveList \/ ReceiveEmptyList)
    /\ WF_vars(ReceivePending)
    /\ WF_vars(Ended)

\* the same for the searches that find calls
SpecPlaybackFair ==
    /\ SpecPlayback
    /\ WF_vars(ReceiveList)
    /\ WF_vars(ReceivePending)
    /\ WF_vars(Ended)

(***************************************************************************)
(* Properties of the session engine, checked under SpecServer.             *)
(***************************************************************************)
\* a step appends a live CAL frame to the queue of session s
LivePush(s) ==
    /\ Len(outQ'[s]) = Len(outQ[s]) + 1
    /\ outQ'[s][Len(outQ'[s])].live

PushedCall(s) == outQ'[s][Len(outQ'[s])].call

\* the credential of s allows, and the given map marks active, the call's own pair or a patch
AllowedActive(s, snapshot, c) ==
    \E tg \in {c.talkgroup} \cup c.patches :
        /\ Allows(Credentials[sessCode[s]].systems, c.system, tg)
        /\ LfmActive(snapshot, c.system, tg)

HoldsLive(s) == \E i \in DOMAIN outQ[s] : outQ[s][i].live

HoldsTag(s, tag) == \E i \in DOMAIN outQ[s] : outQ[s][i].tag = tag

C2_NoCallBeforeReady ==
    \A s \in Sessions :
        sessState[s] \in {"UNAUTHENTICATED", "AUTHENTICATED"} =>
            lastSent[s] # "CAL" /\ ~HoldsTag(s, "CAL")

\* session 1 is still UNAUTHENTICATED after a fan-out that gave session 2 a live call
C2_Witness ==
    /\ sessState[1] = "UNAUTHENTICATED"
    /\ cur = 0
    /\ HoldsLive(2)

\* C3: the live admitted sessions bound to a credential with limit N never exceed N,
\* and a session answered MAX (tooMany) is not registered.
C3_AdmissionLimit ==
    /\ \A code \in DOMAIN Credentials :
          Credentials[code].limit > 0 => LiveCount(code) <= Credentials[code].limit
    /\ \A s \in Sessions : (HoldsTag(s, "MAX") \/ lastSent[s] = "MAX") => s \notin registry

\* the limit of credential A is used up and a further session of A is answered MAX
C3_Witness ==
    \E s, t \in Sessions :
        /\ s # t
        /\ LiveCount("A") = LimitA
        /\ s \in registry /\ sessCode[s] = "A"
        /\ sessCode[t] = "A" /\ HoldsTag(t, "MAX")

IsPrefix(a, b) == Len(a) <= Len(b) /\ SubSeq(b, 1, Len(a)) = a

TagsOf(q) == [i \in DOMAIN q |-> q[i].tag]

\* what a step appended to the queue of s (defined when the queue was extended)
Appended(s) == SubSeq(outQ'[s], Len(outQ[s]) + 1, Len(outQ'[s]))

Extended(s) == IsPrefix(outQ[s], outQ'[s]) /\ Len(outQ'[s]) > Len(outQ[s])

\* the three outcomes of a PIN on session s
PinRejected(s) ==
    /\ TagsOf(Appended(s)) = <<"XPR">>
    /\ closing'[s] /\ s \notin registry' /\ sessState'[s] = "UNAUTHENTICATED"

PinTooMany(s) ==
    /\ TagsOf(Appended(s)) = <<"MAX">>
    /\ closing'[s] /\ s \notin registry' /\ sessState'[s] = "AUTHENTICATED"

PinAdmitted(s) ==
    /\ TagsOf(Appended(s)) = <<"PIN", "CFG">>
    /\ ~closing'[s] /\ s \in registry' /\ sessState'[s] = "READY"

\* XPR or MAX is the last frame of the session: nothing is queued behind it, nothing is
\* written after it, and the session reads no further request
ClosedByReject(s) ==
    /\ \A i \in DOMAIN outQ[s] : outQ[s][i].tag \in {"XPR", "MAX"} => i = Len(outQ[s])
    /\ lastSent[s] \in {"XPR", "MAX"} => outQ[s] = <<>>
    /\ (lastSent[s] \in {"XPR", "MAX"} \/ HoldsTag(s, "XPR") \/ HoldsTag(s, "MAX")) => closing[s]

\* C4: every frame a session queues before READY is the outcome of its PIN, exactly
\* one of XPR then close, MAX then close, or PIN ack then CFG with entry into READY;
\* READY is entered in no other way; after XPR or MAX nothing more is queued or sent.
C4_PinOutcomes ==
    /\ [](\A s \in Sessions : ClosedByReject(s))
    /\ [][\A s \in Sessions :
            /\ (Extended(s) /\ sessState[s] = "UNAUTHENTICATED") => PinRejected(s)
            /\ (Extended(s) /\ sessState[s] = "AUTHENTICATED") =>
                    (PinTooMany(s) /\ TooMany(sessCode[s])) \/ (PinAdmitted(s) /\ ~TooMany(sessCode[s]))
            /\ (sessState[s] # "READY" /\ sessState'[s] = "READY") =>
                    sessState[s] = "AUTHENTICATED" /\ PinAdmitted(s)
            /\ (closing[s] /\ sessState'[s] # "CLOSED") =>
                    closing'[s] /\ (outQ'[s] = outQ[s] \/ outQ'[s] = Tail(outQ[s]))]_vars

\* one session was admitted (PIN ack written, CFG queued), the other was answered MAX
\* and its writer has written the MAX
C4_Witness ==
    \E s, t \in Sessions :
        /\ sessState[s] = "READY" /\ lastSent[s] = "PIN" /\ HoldsTag(s, "CFG")
        /\ sessState[t] = "AUTHENTICATED" /\ lastSent[t] = "MAX" /\ closing[t]

LiveIds(q) == [i \in {j \in DOMAIN q : q[j].live} |-> q[i].call.id]

\* C5: the writer of a session writes the head of its queue and every enqueue appends
\* at the tail, so frames leave in the order they were enqueued; live calls are pushed
\* in acceptance order (the id the store gave them), so the live calls a session holds
\* are in that order and all later than the last live call written to it.
C5_Fifo ==
    /\ [](\A s \in Sessions :
            \A i \in DOMAIN LiveIds(outQ[s]) :
                /\ LiveIds(outQ[s])[i] > lastLive[s]
                /\ \A j \in DOMAIN LiveIds(outQ[s]) : i < j => LiveIds(outQ[s])[i] < LiveIds(outQ[s])[j])
    /\ [][\A s \in Sessions :
            /\ \/ IsPrefix(outQ[s], outQ'[s]) /\ lastSent'[s] = lastSent[s]
               \/ /\ outQ[s] # <<>> /\ outQ'[s] = Tail(outQ[s])
                  /\ lastSent'[s] = Head(outQ[s]).tag
                  /\ Head(outQ[s]).live => lastLive'[s] = Head(outQ[s]).call.id
               \/ sessState'[s] = "CLOSED" /\ outQ'[s] = <<>>
               \/ sessState[s] = "NONE" /\ outQ'[s] = <<>>
            /\ LivePush(s) => PushedCall(s).id = cur /\ cur = Len(calls)]_vars

\* call 1 has been written to a session that holds call 2 in its queue
C5_Witness ==
    \E s \in Sessions :
        /\ lastLive[s] = 1
        /\ \E i \in DOMAIN outQ[s] : outQ[s][i].live /\ outQ[s][i].call.id = 2

\* the step of notifyCall that marks session s for drop
MarksForDrop(s) == visiting = s /\ visiting' = 0 /\ ~dropMark[s] /\ dropMark'[s]

\* C6: a fan-out in progress always has its next step enabled, whatever the state of
\* the sessions' queues; no queue ever holds more than QueueCap frames; a session
\* marked for drop is closed by its own writer, which writes nothing more; the step
\* that marks a session for drop finishes that session's visit and touches no other
\* session; and a session visited with room in its queue gets the call it matches even
\* when other sessions are marked for drop.
C6_NeverBlocks ==
    /\ [](/\ \A s \in Sessions : Len(outQ[s]) <= QueueCap
          /\ \A s \in Sessions :
                (dropMark[s] /\ sessState[s] # "CLOSED") =>
                    ENABLED WriterClose(s) /\ ~ENABLED WriterSend(s)
          /\ cur # 0 => /\ visiting # 0 => ENABLED NotifyVisit(visiting)
                        /\ visiting = 0 => todo # {} /\ \A s \in todo : ENABLED NotifyLoad(s))
    /\ [][\A s \in Sessions :
            /\ MarksForDrop(s) =>
                  /\ todo' = todo \ {s}
                  /\ outQ'[s] = outQ[s]
                  /\ \A t \in Sessions \ {s} : outQ'[t] = outQ[t] /\ dropMark'[t] = dropMark[t]
            /\ (/\ visiting = s /\ visiting' = 0
                /\ Registered(s) /\ ~CredentialExpired(s)
                /\ Matches(Permission(s), snap, calls[cur])
                /\ ~dropMark[s] /\ Len(outQ[s]) < QueueCap) =>
                  LivePush(s) /\ PushedCall(s) = calls[cur]
            /\ (dropMark[s] /\ sessState'[s] # "CLOSED") =>
                  dropMark'[s] /\ outQ'[s] = outQ[s] /\ lastSent'[s] = lastSent[s]]_vars

\* the first call overflowed the queue of one session, which is marked for drop, and
\* was enqueued to the other session
C6_Witness ==
    \E s, t \in Sessions :
        /\ s # t
        /\ Len(calls) = 1 /\ cur = 0 /\ nRequests = 0 /\ expired = {}
        /\ dropMark[s] /\ Len(outQ[s]) = QueueCap
        /\ \E i \in DOMAIN outQ[t] : outQ[t][i].live /\ outQ[t][i].call.id = 1

(***************************************************************************)
(* Properties of the schema bootstrap, checked under SpecDb.               *)
(***************************************************************************)
\* a step of migrate() attempts migration m
Attempts(m) == pc = "migrate" /\ nextMig = m

\* nothing but the schema, the commit count and the Meta row of m differs
OnlyChanges(m) ==
    /\ \A j \in Migrations \ {m} :
          /\ store'.schema[j] = store.schema[j]
          /\ store'.commits[j] = store.commits[j]
          /\ (j \in store'.names) = (j \in store.names)
    /\ store'.table = store.table

\* a call of migrateWithSchema for migration m, not in Meta, commits every statement it
\* was given together with the name
AllCommitted(m) ==
    /\ last'.outcome = "ok"
    /\ ~last'.err
    /\ m \in store'.names
    /\ store'.schema[m] = store.schema[m] + last'.total
    /\ store'.commits[m] = store.commits[m] + 1
    /\ OnlyChanges(m)

\* a call of migrateWithSchema failed and left the database as it was
NothingInEffect(m) ==
    /\ last'.outcome \in Failing
    /\ store' = store

\* C7 (as stated): a call of migrateWithSchema for a migration that is not in Meta
\* either commits every statement it was given together with the migration's name, or
\* (count query, statement, Meta insert or commit failed, or the transaction did not
\* begin) leaves the database as it was: no statement in effect, the name not in Meta;
\* in every state a migration is in Meta exactly when its statements are in effect.
C7_AsStated ==
    /\ [](\A m \in Migrations : (m \in store.names) = (store.schema[m] > 0))
    /\ [][\A m \in Migrations :
            (Attempts(m) /\ m \notin store.names /\ last'.outcome # "scanFail") =>
                AllCommitted(m) \/ NothingInEffect(m)]_vars

\* the same, for the engines that keep schema statements inside the transaction
AllOrNothingInTransaction ==
    /\ [](~ImplicitCommit(dbType) =>
            \A m \in Migrations : (m \in store.names) = (store.schema[m] > 0))
    /\ [][\A m \in Migrations :
            (/\ ~ImplicitCommit(dbType)
             /\ Attempts(m) /\ m \notin store.names /\ last'.outcome # "scanFail") =>
                AllCommitted(m) \/ NothingInEffect(m)]_vars

\* on MySQL or MariaDB statement 3 or later of a migration failed: the statements before
\* it are in effect although the name is not in Meta
PartlyApplied ==
    /\ ImplicitCommit(dbType)
    /\ last.outcome = "stmtFail"
    /\ last.executed >= 2
    /\ store.schema[last.m] = last.executed
    /\ last.m \notin store.names
    /\ pc = "fatal"

\* C8 (as stated): no migration is committed more than once, a migration whose name
\* is in Meta executes none of its statements, and once a run of the bootstrap has
\* returned, the schema and Meta stay as that run left them, however often the
\* bootstrap runs again.
C8_AsStated ==
    /\ [](\A m \in Migrations : store.commits[m] <= 1)
    /\ [][\A m \in Migrations : (Attempts(m) /\ m \in store.names) => store' = store]_vars
    /\ [](firstOk.set => store.names = firstOk.names /\ store.schema = firstOk.schema)

Held(current, q) == ({current} \ {NoCall}) \cup {q[i] : i \in DOMAIN q}

\* the call's system has no entry in the map, or its talkgroup none under its system
Missing(map, c) == ~HasSystem(map, c.system) \/ c.talkgroup \notin DOMAIN map[c.system]

\* C10 (as stated): for every call the client holds whose system or talkgroup has no
\* entry in livefeedMap, isAvoided reports the call avoided, isPatched takes the call's
\* own talkgroup as inactive (it is true exactly when a patch is active), and
\* cleanQueue, run by avoid(), keeps no call without an active entry.
C10_AsStated ==
    /\ [](\A c \in Held(call, callQueue) :
            Missing(livefeedMap, c) =>
                /\ isAvoided(livefeedMap, c)
                /\ ~lfm(livefeedMap, c.system, c.talkgroup)
                /\ isPatched(livefeedMap, c) = (\E tg \in c.patches : lfm(livefeedMap, c.system, tg)))
    /\ [][\A sys \in SystemIds, tg \in TalkgroupIds, minutes \in {0, AvoidMinutes} :
            (Avoid(sys, tg, minutes) /\ livefeedMode # "playback") =>
                \A c \in Held(call', callQueue') : isActive(livefeedMap', c)]_vars

\* the map the user's choices live in: the snapshot a hold will restore, else livefeedMap
UserMap ==
    IF priorSys.set THEN priorSys.map
    ELSE IF priorTg.set THEN priorTg.map
    ELSE livefeedMap

\* C11 (as stated): when the minutes of an avoid elapse, and no later avoid or
\* toggleCategory of the entry has cancelled them, the entry is active again, whatever
\* was done in between (holdSystem, holdTalkgroup, CFG, livefeed).
C11_AsStated ==
    [][\A p \in TimedPairs :
         (Elapse(p) /\ p \in Entries(UserMap')) => lfmIs(UserMap', p, TRUE)]_vars

\* toggleCategory runs to its end: no TypeError in its loop or after it
Completes ==
    /\ ~LoopThrows(Client)
    /\ call # NoCall => HasSystem(livefeedMap, call.system)

\* a step of avoid, holdSystem, holdTalkgroup or toggleCategory
ChangesSubscription ==
    \/ \E sys \in SystemIds, tg \in TalkgroupIds, minutes \in {0, AvoidMinutes} :
          Avoid(sys, tg, minutes)
    \/ HoldSystem
    \/ HoldTalkgroup
    \/ ToggleCategory /\ Completes

\* C12 (as stated): after avoid, holdSystem, holdTalkgroup (engaging or releasing) or
\* toggleCategory has run outside playback mode, every call left in callQueue has its
\* talkgroup or one of its patches active in the resulting livefeedMap, and every call
\* that was queued and has is still queued, or is the one now played.
C12_AsStated ==
    [][(ChangesSubscription /\ livefeedMode # "playback") =>
         /\ \A i \in DOMAIN callQueue' : isActive(livefeedMap', callQueue'[i])
         /\ \A i \in DOMAIN callQueue :
               isActive(livefeedMap', callQueue[i]) =>
                   \/ \E j \in DOMAIN callQueue' : callQueue'[j] = callQueue[i]
                   \/ call' = callQueue[i]]_vars

\* a hold on the talkgroup of a patched call was released while a call of that
\* talkgroup, which the restored map avoids, was queued
ReleasedOntoAvoided ==
    /\ ~priorTg.set /\ ~priorSys.set
    /\ call.id = 2
    /\ callQueue = <<[Shape(1, 1, {}) EXCEPT !.id = 1]>>
    /\ lfmIs(livefeedMap, <<1, 1>>, FALSE)
    /\ lfmIs(livefeedMap, <<1, 2>>, TRUE)

(***************************************************************************)
(* Properties of the client and its session, checked under SpecLink.       *)
(***************************************************************************)
\* the LFM payloads the session may read in a step
Inbound ==
    LfmPayloads \cup (IF LfmFrames(sent) # {} THEN {PayloadOf(LastLfm(sent))} ELSE {})

\* the calls of the model the session would be sent under a LivefeedMap
WouldBeSent(s, snapshot) ==
    {shape \in CallShapes : Matches(Permission(s), snapshot, shape)}

\* a CFG message reaches the client while its livefeed is on and leaves livefeedMap as
\* it was: startLivefeed runs again on the same map
RepeatedStart ==
    /\ DeliverConfig
    /\ livefeedMode = "online"
    /\ livefeedMap' = livefeedMap
    /\ LfmFrames(sent) # {}

\* C13: an LFM with the map of the LFM before it leaves the session's LivefeedMap and
\* the calls the session will be sent as they were; a startLivefeed repeated on the same
\* livefeedMap sends the frame it sent before and changes nothing else in the client:
\* the mode stays online, the queue and the playing call are untouched.
C13_Idempotent ==
    [][/\ \A payload \in Inbound :
             (/\ ReceiveLfm(Own, payload, FALSE)
              /\ sessLfm[Own] = LfmApplied(Permission(Own), payload, FALSE)) =>
                 /\ sessLfm' = sessLfm
                 /\ WouldBeSent(Own, sessLfm'[Own]) = WouldBeSent(Own, sessLfm[Own])
       /\ RepeatedStart =>
             /\ sent' = <<LastLfm(sent)>>
             /\ livefeedMode' = "online"
             /\ callQueue' = callQueue
             /\ call' = call
             /\ callPrevious' = callPrevious
             /\ livefeedMap' = livefeedMap]_vars

\* the client, playing a call with its livefeed on, has sent the frame of its map after
\* a CFG of a reload, and the session holds the map of that frame
C13_Witness ==
    /\ livefeedMode = "online"
    /\ call # NoCall
    /\ lastSent[Own] = "CFG"
    /\ sent = <<Encode("LFM", JsMap(livefeedMap), JsUndefined)>>
    /\ Registered(Own)
    /\ sessLfm[Own] = LfmApplied(Permission(Own), PayloadOf(LastLfm(sent)), FALSE)
    /\ Entries(livefeedMap) # {}

\* the user turns the livefeed off
StopsLivefeed == UserLivefeed /\ livefeedMode = "online"

\* what stopLivefeed leaves in the client: offline, nothing queued, nothing playing
Stopped ==
    /\ livefeedMode' = "offline"
    /\ callQueue' = << >>
    /\ call' = NoCall

\* the handler sent one LFM frame without a map
SentNull ==
    /\ Len(sent') = 1
    /\ IsLfm(sent'[1])
    /\ IsNullLfm(sent'[1])

\* the session reads the LFM frame that stopLivefeed sent
ReadsNull == DeliverLfm /\ IsNullLfm(LastLfm(sent)) /\ ~CredentialExpired(Own)

\* the writer of session s writes a live CAL frame
LiveWrite(s) == WriterSend(s) /\ Head(outQ[s]).live

\* a reload reaches the session whether it is attached or not
ReloadReaches(s) ==
    (ReloadConfig /\ Registered(s)) =>
        /\ outQ'[s] = Enqueue(Out(s), Ctl("CFG")).q
        /\ dropMark'[s] = Enqueue(Out(s), Ctl("CFG")).drop

Replaced(s, payload) ==
    /\ sessLfm'[s].attached
    /\ DOMAIN sessLfm'[s].map = {p \in DOMAIN payload : Allows(Permission(s), p[1], p[2])}
    /\ \A p \in DOMAIN sessLfm'[s].map : sessLfm'[s].map[p] = payload[p]
    /\ \A p \in DOMAIN sessLfm[s].map \ DOMAIN payload : p \notin DOMAIN sessLfm'[s].map

\* nothing is queued for session s by the step
NoFrame(s) == outQ'[s] = outQ[s] /\ dropMark'[s] = dropMark[s] /\ closing'[s] = closing[s]

\* every LFM frame with a map that the handler of the step sent lists the entries of
\* livefeedMap, each with its active flag
ListsEveryEntry ==
    \A i \in DOMAIN sent' :
        (sent' # sent /\ IsLfm(sent'[i]) /\ ~IsNullLfm(sent'[i])) =>
            /\ DOMAIN PayloadOf(sent'[i]) = Entries(livefeedMap')
            /\ \A q \in Entries(livefeedMap') :
                  PayloadOf(sent'[i])[q] = livefeedMap'[q[1]][q[2]]

RoundTrip(frame, command, payload, flags) ==
    /\ Decode(frame).array
    /\ At(Decode(frame).items, 1) = JsString(command)
    /\ At(Decode(frame).items, 2) = payload
    /\ At(Decode(frame).items, 3) = flags

\* C16 (as stated): the frame sendtoWebsocket sends for a command, a payload and a flag
\* decodes to the same tag, the same payload in position 1 and the same flag in position
\* 2, null and other falsy payloads and frames with a flag included.
C16_AsStated ==
    [][\A command \in Commands, payload \in FramePayloads, flags \in FrameFlags :
         (Send(command, payload, flags) /\ websocket = "open") =>
             Len(sent') = 1 /\ RoundTrip(sent'[1], command, payload, flags)]_vars

\* stopLivefeed has sent LFM null: the frame holds the tag alone
NullLeftOut ==
    /\ livefeedMode = "offline"
    /\ sent = <<Encode("LFM", JsNull, JsUndefined)>>
    /\ Len(sent[1]) = 1

(***************************************************************************)
(* Properties of the replies, checked under SpecCalls.                     *)
(***************************************************************************)
\* nothing of the queue, the playing call or the mode changes in the step
Untouched ==
    /\ callQueue' = callQueue
    /\ call' = call
    /\ callPrevious' = callPrevious
    /\ livefeedMode' = livefeedMode

\* the call is put at the head of the queue; play() takes it when nothing is playing
AtHead(c) ==
    IF call = NoCall THEN call' = c /\ callQueue' = callQueue
    ELSE call' = call /\ callQueue' = <<c>> \o callQueue

\* the call is put at the tail of the queue; play() takes the head when nothing is playing
AtTail(c) ==
    IF call # NoCall THEN call' = call /\ callQueue' = Append(callQueue, c)
    ELSE IF callQueue = << >> THEN call' = c /\ callQueue' = << >>
    ELSE call' = Head(callQueue) /\ callQueue' = Append(Tail(callQueue), c)

IsPending(c) == c.id = playbackPending

\* what a CAL message does by its flag, in a mode in which queue() takes calls
ByFlag(c, flag) ==
    IF flag = <<JsString("d")>>
    THEN downloaded' = c.id /\ Untouched /\ playbackPending' = playbackPending
    ELSE IF flag = <<JsString("p")>> /\ IsPending(c)
    THEN playbackPending' = 0 /\ AtHead(c)
    ELSE playbackPending' = playbackPending /\ AtTail(c) /\ downloaded' = 0

C18_UnknownIgnored ==
    [][\A message \in OtherMessages :
         ReceiveOther(message) =>
             /\ UNCHANGED <<config, livefeedMap, priorSys, priorTg, timers, due, callQueue,
                            call, callPrevious, livefeedMode, playbackPending, playbackList,
                            playbackRefreshing, playbackGoesLive, websocket, reconnecting,
                            destroyed>>
             /\ sent' = << >>
             /\ downloaded' = 0]_vars

\* a hold is engaged on the playing call with the livefeed on, and a handler that sends
\* nothing has run since, leaving call, queue, holds and map as they were
C18_Witness ==
    /\ livefeedMode = "online"
    /\ websocket = "open"
    /\ call # NoCall
    /\ callPrevious = NoCall
    /\ callQueue = << >>
    /\ priorSys.set
    /\ \A p \in Entries(priorSys.map) : lfmIs(priorSys.map, p, TRUE)
    /\ due = {}
    /\ timers = {}
    /\ sent = << >>

(***************************************************************************)
(* Properties of the socket, checked under SpecSocket.                     *)
(***************************************************************************)
\* the handler of the step sent an LFM frame with a map
SendsMap == \E i \in DOMAIN sent' : IsLfm(sent'[i]) /\ ~IsNullLfm(sent'[i])

\* the frames of a fresh session: the version and the config are asked for
Fresh == <<Encode("VER", JsUndefined, JsUndefined), Encode("CFG", JsUndefined, JsUndefined)>>

\* C19: a close with a code other than 1000 arms the reconnect, and an armed reconnect
\* leads to a new socket; a close with code 1000 and the destruction of the service arm
\* nothing, and no socket is opened but by an armed reconnect; the new socket starts
\* with the requests of a fresh session and no LFM; the CFG that arrives on it is
\* answered with the LFM of the whole livefeedMap if the mode is online and with no
\* LFM otherwise, and an LFM with a map is sent in no other mode.
C19_Reconnects ==
    /\ [][/\ \A code \in CloseCodes : Close(code) => (reconnecting' <=> code # 1000)
          /\ Destroy => (reconnecting' <=> reconnecting)
          /\ (websocket # "connecting" /\ websocket' = "connecting") =>
                reconnecting /\ ~reconnecting' /\ sent' = << >>
          /\ Open => sent' = Fresh
          /\ \A cfg \in Configs :
                ReceiveConfig(cfg) =>
                    sent' = IF livefeedMode = "online"
                            THEN <<Encode("LFM", JsMap(livefeedMap'), JsUndefined)>>
                            ELSE << >>
          /\ (sent' # sent /\ SendsMap) => livefeedMode' = "online"]_vars
    /\ (reconnecting ~> websocket = "connecting")

\* a client that plays a call with its livefeed on has lost its socket and opened a new
\* one, which is not connected yet
C19_Witness ==
    /\ ~destroyed
    /\ websocket = "connecting"
    /\ ~reconnecting
    /\ livefeedMode = "online"
    /\ call # NoCall
    /\ Entries(livefeedMap) # {}

\* a reconnect armed before the service was destroyed has opened a socket after it
ReconnectsDestroyed == destroyed /\ websocket = "connecting"

(***************************************************************************)
(* Properties of the playback walk, checked under SpecPlayback.            *)
(***************************************************************************)
\* the step is one of the walk: the audio ends or a page arrives in playback mode
Walks == (Ended \/ ReceiveList) /\ livefeedMode = "playback"

\* C20 (as stated): in playback mode the walk requests, after the call played last, the
\* call that follows it by dateTime, and it ends only after the newest call of the
\* store, for either sort and every offset and limit of the search.
C20_AsStated ==
    [][Walks =>
         /\ (playbackPending' # 0 /\ playbackPending = 0) =>
                playbackPending' = callPrevious'.id + 1
         /\ livefeedMode' # "playback" => callPrevious'.id = StoreSize]_vars

\* the walk of a search by descending dateTime with limit 2 and offset 1 has ended
\* after call 2, the newest of the page; call 3 is newer
EndsBeforeNewest ==
    /\ livefeedMode = "offline"
    /\ playbackList.set
    /\ playbackList.options = [sort |-> -1, limit |-> 2, offset |-> 1]
    /\ callPrevious.id = 2
    /\ call = NoCall

(***************************************************************************)
(* Properties of the query service, checked under SpecQuery.               *)
(***************************************************************************)
\* the calls a search of the listener is to find: those the options choose among those
\* the credential allows
Answer ==
    {i \in DOMAIN archive :
        /\ walk.options.system \in {0, archive[i].system}
        /\ walk.options.talkgroup \in {0, archive[i].talkgroup}
        /\ Allows(Credentials[walk.code].systems, archive[i].system, archive[i].talkgroup)}

LastPage == walk.pages[Len(walk.pages)]

\* the offset the last page was asked at
LastOffset == walk.options.offset + (Len(walk.pages) - 1) * walk.options.limit

\* by dateTime in the requested direction, a later row never before an earlier one
Ascends(page) ==
    \A i \in 1..(Len(page) - 1) :
        walk.options.sort * (archive[page[i + 1]].dateTime - archive[page[i]].dateTime) >= 0

\* strictly by dateTime in the requested direction
AscendsStrictly(page) ==
    \A i \in 1..(Len(page) - 1) :
        walk.options.sort * (archive[page[i + 1]].dateTime - archive[page[i]].dateTime) > 0

\* count is the size of the whole filtered set; limit 0 and offset >= count give no results
CountAndBounds ==
    /\ walk.count = Cardinality(Answer)
    /\ walk.options.limit = 0 => LastPage = << >>
    /\ LastOffset >= walk.count => LastPage = << >>

\* no call is on two pages, or twice on one
NoOverlap ==
    \A k, l \in DOMAIN walk.pages : \A i \in DOMAIN walk.pages[k], j \in DOMAIN walk.pages[l] :
        walk.pages[k][i] = walk.pages[l][j] => k = l /\ i = j

\* the walk began at offset 0 and has come to an empty page
WalkedThrough == walk.options.offset = 0 /\ walk.options.limit > 0 /\ LastPage = << >>

NoGap ==
    \A id \in Answer : \E k \in DOMAIN walk.pages : \E i \in DOMAIN walk.pages[k] :
        walk.pages[k][i] = id

\* no two calls of the filtered set have the same dateTime
DistinctTimes ==
    \A i, j \in Answer : archive[i].dateTime = archive[j].dateTime => i = j

TiedOnPage ==
    /\ walk.asked
    /\ \E i, j \in DOMAIN LastPage :
          i # j /\ archive[LastPage[i]].dateTime = archive[LastPage[j]].dateTime

\* a limit above the server's maximum: the pages end with a call on none of them
SkippedByCap ==
    /\ walk.asked
    /\ walk.options.limit > PageCap
    /\ WalkedThrough
    /\ ~NoGap

\* the credential of the listener allows the call
Permits(i) == Allows(Credentials[walk.code].systems, archive[i].system, archive[i].talkgroup)

\* the search names a system and a talkgroup and the credential does not allow the pair
NamesDisallowed ==
    /\ walk.options.system # 0
    /\ walk.options.talkgroup # 0
    /\ ~Allows(Credentials[walk.code].systems, walk.options.system, walk.options.talkgroup)

\* C22: a search never returns a call outside the session's permission: every call on
\* a page is allowed by the credential, count counts allowed calls only, and a search
\* that names a talkgroup the credential does not allow has count 0 and no results.
C22_WithinPermission ==
    walk.asked =>
        /\ \A k \in DOMAIN walk.pages : \A i \in DOMAIN walk.pages[k] : Permits(walk.pages[k][i])
        /\ walk.count = Cardinality({i \in DOMAIN archive :
                                        Chosen(archive[i], walk.options) /\ Permits(i)})
        /\ NamesDisallowed => walk.count = 0 /\ LastPage = << >>

\* a restricted listener searches a system by its id alone: the archive holds a call of
\* the system that the credential allows and one that it does not, the page the former
C22_Witness ==
    /\ walk.asked
    /\ Credentials[walk.code].systems = AllowSys1Tg2
    /\ walk.options.system = 1
    /\ walk.options.talkgroup = 0
    /\ \E i, j \in DOMAIN archive :
          /\ archive[i].system = 1 /\ archive[j].system = 1
          /\ Permits(i) /\ ~Permits(j)
          /\ walk.pages = << <<i>> >>
    /\ walk.count = 1

(***************************************************************************)
(* The admission slot of a closed session, checked under SpecServer.       *)
(***************************************************************************)
\* the step closes session s
Closes(s) == Connected(s) /\ sessState'[s] = "CLOSED"

\* the live count of the credential after the step
LiveCountAfter(code) == Cardinality({t \in registry' : sessCode'[t] = code})

\* C23: closing a session, for whatever reason, releases its admission slot exactly
\* once: the step that closes it takes it out of the registry and discards its queue,
\* the live count of its credential goes down by one if it held a slot and by nothing
\* otherwise, the counts of the other credentials stay, no closed session holds a slot,
\* and a credential is refused as tooMany only for sessions that are still connected.
C23_ReleasesSlot ==
    [][/\ \A s \in Sessions :
             Closes(s) =>
                /\ s \notin registry'
                /\ outQ'[s] = << >>
                /\ \A code \in DOMAIN Credentials :
                      LiveCountAfter(code) =
                         LiveCount(code) - (IF s \in registry /\ sessCode[s] = code THEN 1 ELSE 0)
       /\ \A t \in registry' : sessState'[t] = "READY"
       /\ \A code \in DOMAIN Credentials :
             (Credentials[code].limit > 0 /\ LiveCountAfter(code) >= Credentials[code].limit)
                => \E t \in Sessions : sessState'[t] = "READY" /\ sessCode'[t] = code
      ]_vars

\* the first session is closed and the second holds the one slot of credential A
C23_Witness ==
    /\ sessState[1] = "CLOSED"
    /\ sessState[2] = "READY"
    /\ sessCode[2] = "A"
    /\ registry = {2}

(***************************************************************************)
(* Sessions of an expired credential, checked under SpecServer.            *)
(***************************************************************************)
\* the step is an ingress message of session s, the visit of notifyCall to it, or a tick
Ingress(s) ==
    \/ \E payload \in LfmPayloads : ReceiveLfm(s, payload, FALSE)
    \/ ReceiveLfm(s, EmptyMap, TRUE)
    \/ \E id \in 1..MaxCalls, flag \in Flags : ReceiveCallRequest(s, id, flag)
    \/ NotifyVisit(s)
    \/ Tick

\* session s is READY and reading, and the expiration of its credential has passed
Overdue(s) ==
    /\ sessState[s] = "READY"
    /\ ~closing[s]
    /\ sessCode[s] \in expired

\* the expiry of the credential of s has been detected
Detected(s) == sessState[s] = "READY" /\ closing[s] /\ sessCode[s] \in expired

\* the step queues XPR behind the frames of s and ends its reading
QueuesXpr(s) == closing'[s] /\ outQ'[s] = Append(outQ[s], Ctl("XPR")) /\ dropMark'[s] = dropMark[s]

\* the step ends the reading of s and leaves it marked for drop, with no frame added
DropsUnanswered(s) == closing'[s] /\ outQ'[s] = outQ[s] /\ dropMark'[s]

\* after the detection no frame is queued for s, its map stays and it stays closing
\* until the writer has closed it
NothingAfter(s) ==
    \/ sessState'[s] = "CLOSED"
    \/ /\ closing'[s]
       /\ sessLfm'[s] = sessLfm[s]
       /\ outQ'[s] = outQ[s] \/ (outQ[s] # << >> /\ outQ'[s] = Tail(outQ[s]))

DroppedWithoutXpr ==
    \E s \in Sessions :
        /\ Detected(s)
        /\ dropMark[s]
        /\ ~HoldsTag(s, "XPR")
        /\ lastSent[s] # "XPR"

(***************************************************************************)
(* Properties of the schema, checked under SpecSchema.                     *)
(***************************************************************************)
\* the whole chain has completed: every migration is recorded and seed() is reached
ChainCompleted == meta = Migrations /\ at.phase \in {"seedGroups", "seedTags", "returned"}

\* rdioScannerCalls has a nullable audio column, an audioUrl column and an index on
\* (dateTime, system, talkgroup)
CallsAsSpecified ==
    /\ HasTable(catalog, Calls)
    /\ "audio" \in catalog.tables[Calls].cols
    /\ "audio" \notin catalog.tables[Calls].required
    /\ "audioUrl" \in catalog.tables[Calls].cols
    /\ \E x \in catalog.indexes :
          x.table = Calls /\ x.key = <<"dateTime", "system", "talkgroup">>

\* C25 as stated: after the whole chain has completed, on each dialect, the Calls table
\* has a nullable audio column, an audioUrl column and an index on (dateTime, system,
\* talkgroup), and no step of the chain refers to a table, column or index that does
\* not exist at that point of the chain.
C25_AsStated ==
    /\ ChainCompleted => CallsAsSpecified
    /\ unknown = {}
    /\ unread = {}

\* C25 as amended: the same of the Calls table, and no statement the chain executes
\* refers to a table, column or index that does not exist at that point (nor creates
\* one that exists); the one reference to something missing is the select of
\* migration20220101070000 on the columns talkgroups and units of rdioScannerSystems,
\* at a start that finds the migration recorded, and its error is ignored.
C25_Chain ==
    /\ ChainCompleted => CallsAsSpecified
    /\ unknown = {}
    /\ at.phase = "fatal" => at.m = 0
    /\ unread \subseteq {"talkgroups", "units"}
    /\ unread # {} => LegacyMigration \in meta /\ starts > 1

\* the chain has completed on a dialect other than SQLite, whose last migrations alter
\* the table in place
C25_Witness ==
    /\ ChainCompleted
    /\ dbType # "sqlite"
    /\ at.phase = "returned"
    /\ starts = 1
    /\ CallsAsSpecified
    /\ Cardinality(catalog.tables[Calls].cols) = 13

\* a later start: the select of migration20220101070000 names columns that are gone
SelectsDropped ==
    /\ starts = 2
    /\ at.phase = "migration"
    /\ at.m = LegacyMigration + 1
    /\ unread = {"talkgroups", "units"}

\* how many rows of a table carry the label
Copies(rows, label) == Cardinality({i \in DOMAIN rows : rows[i] = label})

\* what one seed may do to its table: nothing, or fill the empty table with all the
\* defaults; no label gets a copy it had not, but the first
SeededOnce(rows, after, defaults) ==
    /\ after = rows \/ (rows = << >> /\ after = defaults)
    /\ Len(rows) # 0 => after = rows
    /\ \A i \in DOMAIN defaults :
          Copies(after, defaults[i]) <= IF Copies(rows, defaults[i]) = 0 THEN 1
                                        ELSE Copies(rows, defaults[i])

\* C26: seedGroups and seedTags insert the default labels only when their table is
\* empty, all the defaults or none of them, so no start of the server duplicates a
\* default label or adds a row to a table that has rows.
C26_OneShot ==
    [][/\ at.phase = "seedGroups" =>
             SeededOnce(groupRows, groupRows', DefaultGroups) /\ tagRows' = tagRows
       /\ at.phase = "seedTags" =>
             SeededOnce(tagRows, tagRows', DefaultTags) /\ groupRows' = groupRows]_vars

\* the second start has passed seedGroups over the rows the administrator left, and
\* comes to seedTags with the defaults of the first start
C26_Witness ==
    /\ starts = 2
    /\ at.phase = "seedTags"
    /\ groupRows = <<"group B", "custom">>
    /\ tagRows = DefaultTags

(***************************************************************************)
(* Properties of the ingestion front, checked under SpecIngest.            *)
(***************************************************************************)
\* the answer the first failing check of the order apiKey, allow-list commands, where
\* the spec gives the status; "" where a later check decides
FirstFailure(sub) ==
    IF sub.apiKey \notin DOMAIN ApiKeys \/ ApiKeys[sub.apiKey].disabled THEN "401"
    ELSE IF ~Allows(ApiKeys[sub.apiKey].systems, sub.system, sub.talkgroup) THEN "403"
    ELSE ""

\* C27: validation runs in the order apiKey, allow-list, system, talkgroup, audio and
\* the first failing check decides the outcome: an unknown or disabled apiKey is
\* answered 401 even when the system/talkgroup is disallowed as well, a disallowed
\* pair 403, the audio is looked at last; and a rejected submission is neither
\* persisted nor passed to notifyCall nor forwarded downstream.
C27_FirstFailingCheck ==
    [][submitted' # submitted =>
          LET sub == answer'.submission
              status == answer'.status
          IN /\ FirstFailure(sub) # "" => status = FirstFailure(sub)
             /\ status = "401" => FirstFailure(sub) = "401"
             /\ status = "400" =>
                   /\ FirstFailure(sub) = ""
                   /\ sub.system \in DOMAIN known'
                   /\ sub.talkgroup \in known'[sub.system].talkgroups
                   /\ sub.audio = "empty"
             /\ FirstFailure(sub) # "" => known' = known
             /\ status # "200" =>
                   /\ persisted' = persisted
                   /\ notified' = notified
                   /\ scheduled' = scheduled
                   /\ answer'.id = 0
             /\ status = "200" =>
                   /\ Len(persisted') = Len(persisted) + 1
                   /\ notified' = Append(notified, answer'.id)
                   /\ persisted'[answer'.id].system = sub.system
                   /\ persisted'[answer'.id].talkgroup = sub.talkgroup]_vars

\* after an accepted call, a submission with a disabled key for a pair that the key
\* does not allow and with no audio was answered 401, and nothing was added for it
C27_Witness ==
    /\ submitted = 2
    /\ answer.status = "401"
    /\ answer.submission = [apiKey |-> "off", system |-> 2, talkgroup |-> 1, audio |-> "empty"]
    /\ Len(persisted) = 1
    /\ notified = <<1>>
    /\ scheduled = {<<"peerAll", 1>>, <<"peerNarrow", 1>>}

(***************************************************************************)
(* Properties of the subscription and the holds, checked under SpecClient. *)
(***************************************************************************)
\* the last LFM frame of the handler is the frame of the map: every entry of the map
\* with its active flag
SentMap(frames, map) ==
    /\ LfmFrames(frames) # {}
    /\ LastLfm(frames) = Encode("LFM", JsMap(map), JsUndefined)

\* the client is online on an open socket before and after the step
StaysOnline ==
    /\ websocket = "open" /\ livefeedMode = "online"
    /\ websocket' = "open" /\ livefeedMode' = "online"

\* C28 (as stated): while the client is online with an open socket, every handled
\* event that changes livefeedMap (avoid, the expiry of an avoid timer, holdSystem,
\* holdTalkgroup, toggleCategory, a CFG reload) has sent an LFM frame, and the last LFM
\* frame sent is the projection of the new livefeedMap.
C28_AsStated ==
    [][StaysOnline /\ livefeedMap' # livefeedMap => SentMap(sent', livefeedMap')]_vars

\* the same of the events other than the expiry of an avoid timer and a toggleCategory
\* that does not run to its end
TracksButTimer ==
    [][/\ StaysOnline
       /\ livefeedMap' # livefeedMap
       /\ ~(\E p \in TimedPairs : Elapse(p))
       /\ ~(ToggleCategory /\ ~Completes)
       => SentMap(sent', livefeedMap')]_vars

\* the part of C28 about the expiry of an avoid timer
TimerExpirySends ==
    [][StaysOnline /\ livefeedMap' # livefeedMap /\ (\E p \in TimedPairs : Elapse(p))
       => SentMap(sent', livefeedMap')]_vars

\* a message of the server is processed
ServerMessage ==
    \/ \E cfg \in Configs : ReceiveConfig(cfg)
    \/ \E c \in ClientCalls : ReceiveCall(c, << >>)
    \/ \E message \in OtherMessages : ReceiveOther(message)

\* the flags of the entries that two maps share are the same
SameFlags(a, b) ==
    \A p \in Entries(a) \cap Entries(b) : a[p[1]][p[2]] = b[p[1]][p[2]]

\* no hold is engaged
NoHold(sys, tg) == ~sys.set /\ ~tg.set

\* C29 (as stated): engaging a hold and then releasing it restores the subscription
\* that was in force before.  The hold that is engaged keeps the flags of livefeedMap,
\* every message of the server processed while it is engaged leaves the flags kept as
\* they are, and the second holdSystem (holdTalkgroup) puts them back in livefeedMap.
C29_AsStated ==
    [][/\ HoldSystem /\ NoHold(priorSys, priorTg) /\ priorSys'.set =>
              priorSys'.map = livefeedMap
       /\ HoldTalkgroup /\ NoHold(priorSys, priorTg) /\ priorTg'.set =>
              priorTg'.map = livefeedMap
       /\ ServerMessage /\ priorSys.set => priorSys'.set /\ SameFlags(priorSys.map, priorSys'.map)
       /\ ServerMessage /\ priorTg.set => priorTg'.set /\ SameFlags(priorTg.map, priorTg'.map)
       /\ HoldSystem /\ priorSys.set => NoHold(priorSys', priorTg') /\ livefeedMap' = priorSys.map
       /\ HoldTalkgroup /\ priorTg.set => NoHold(priorSys', priorTg') /\ livefeedMap' = priorTg.map]_vars

\* the same without the messages of the server: what a hold engages it releases
HoldRestores ==
    [][/\ HoldSystem /\ NoHold(priorSys, priorTg) /\ priorSys'.set =>
              priorSys'.map = livefeedMap
       /\ HoldTalkgroup /\ NoHold(priorSys, priorTg) /\ priorTg'.set =>
              priorTg'.map = livefeedMap
       /\ ~(\E cfg \in Configs : ReceiveConfig(cfg)) /\ priorSys.set /\ priorSys'.set =>
              priorSys'.map = priorSys.map
       /\ ~(\E cfg \in Configs : ReceiveConfig(cfg)) /\ priorTg.set /\ priorTg'.set =>
              priorTg'.map = priorTg.map
       /\ HoldSystem /\ priorSys.set => NoHold(priorSys', priorTg') /\ livefeedMap' = priorSys.map
       /\ HoldTalkgroup /\ priorTg.set => NoHold(priorSys', priorTg') /\ livefeedMap' = priorTg.map]_vars

\* C30: at most one hold is engaged at any time: livefeedMapPriorToHoldSystem and
\* livefeedMapPriorToHoldTalkgroup are never both defined; holdSystem and holdTalkgroup
\* leave the other hold released, and avoid and toggleCategory end any hold.
C30_OneHold ==
    /\ [](~(priorSys.set /\ priorTg.set))
    /\ [][/\ HoldSystem => ~priorTg'.set
          /\ HoldTalkgroup => ~priorSys'.set
          /\ HoldSystem /\ priorTg.set /\ (call # NoCall \/ callPrevious # NoCall) =>
                priorSys'.set /\ priorSys'.map = priorTg.map
          /\ HoldTalkgroup /\ priorSys.set /\ (call # NoCall \/ callPrevious # NoCall) =>
                priorTg'.set /\ priorTg'.map = priorSys.map
          /\ (\E sys \in SystemIds, tg \in TalkgroupIds, minutes \in {0, AvoidMinutes} :
                 Avoid(sys, tg, minutes)) => NoHold(priorSys', priorTg')
          /\ ToggleCategory => NoHold(priorSys', priorTg')]_vars

\* a system hold is engaged on a map that had more than the system of the call active,
\* and the client has subscribed to the held map
C30_Witness ==
    /\ priorSys.set
    /\ ~priorTg.set
    /\ livefeedMap # priorSys.map
    /\ livefeedMode = "online"
    /\ SentMap(sent, livefeedMap)

(***************************************************************************)
(* The map of a system hold, checked under SpecClient.                     *)
(***************************************************************************)
\* the call a hold is about: this.call || this.callPrevious
HoldCall == IF call # NoCall THEN call ELSE callPrevious

\* holdSystem engages a hold in this step
EngagesSystem == HoldSystem /\ ~priorSys.set /\ priorSys'.set

\* no talkgroup of the system is active in the map
NoneActive(map, sys) == \A tg \in DOMAIN map[sys] : ~map[sys][tg]

\* C31 (as stated): when holdSystem engages a hold on the system of the current (or
\* previous) call, every talkgroup of every other system becomes inactive and each
\* talkgroup of the held system keeps its active flag, except that all of them become
\* active when none was (allOn), so that the held system has an active talkgroup if it
\* has any talkgroup.
C31_AsStated ==
    [][EngagesSystem =>
          LET before == priorSys'.map
          IN /\ DOMAIN livefeedMap' = DOMAIN before
             /\ \A sys \in DOMAIN before :
                   /\ DOMAIN livefeedMap'[sys] = DOMAIN before[sys]
                   /\ \A tg \in DOMAIN before[sys] :
                         livefeedMap'[sys][tg] =
                             IF sys # HoldCall.system THEN FALSE
                             ELSE IF NoneActive(before, sys) THEN TRUE
                             ELSE before[sys][tg]
             /\ HoldCall.system \in DOMAIN before /\ DOMAIN before[HoldCall.system] # {}
                   => ~NoneActive(livefeedMap', HoldCall.system)]_vars

\* the same without allOn: the talkgroups of the held system keep their flags
HoldKeepsFlags ==
    [][EngagesSystem =>
          LET before == priorSys'.map
          IN /\ DOMAIN livefeedMap' = DOMAIN before
             /\ \A sys \in DOMAIN before :
                   /\ DOMAIN livefeedMap'[sys] = DOMAIN before[sys]
                   /\ \A tg \in DOMAIN before[sys] :
                         livefeedMap'[sys][tg] =
                             IF sys # HoldCall.system THEN FALSE ELSE before[sys][tg]]_vars

(***************************************************************************)
(* Properties of the audio, checked under SpecAudio.                       *)
(***************************************************************************)
\* C32 (as stated): whenever audioSource is set, its buffer was decoded from the audio
\* of the call held in this.call, and at most one source exists at a time, under
\* every interleaving of the decode and fetch completions with skip, stop, replay and
\* queue.
C32_AsStated ==
    /\ player.audioSource # 0 => player.audioSource = player.call
    /\ player.sources <= 1

\* at most one source exists, and none without a call
OneSource ==
    /\ player.sources = (IF player.audioSource # 0 THEN 1 ELSE 0)
    /\ player.audioSource # 0 => player.call # 0

\* while the player stays paused no call becomes the current call
NoCallWhilePaused ==
    (player.livefeedPaused /\ player'.livefeedPaused) => player'.call \in {player.call, 0}

\* a call received while paused, and not offline, goes to the tail of callQueue, the
\* reply to loadAndPlay to its head; nothing leaves the queue
KeptInOrder ==
    \A id \in AudioIds, priority \in BOOLEAN :
        (Arrive(id, priority) /\ player.livefeedPaused /\ player.livefeedMode # "offline")
            => player'.callQueue = (IF priority THEN <<id>> \o player.callQueue
                                    ELSE Append(player.callQueue, id))

\* the pause is lifted with no current call and a call in the queue
Lifted ==
    /\ player.livefeedPaused /\ ~player'.livefeedPaused
    /\ player.call = 0 /\ player.callQueue # << >>

\* the head of the queue starts playing
HeadStarts ==
    /\ player'.call = Head(player.callQueue)
    /\ player'.callQueue = Tail(player.callQueue)
    /\ Under(player') = Under(player) + 1

\* C37 (as stated): while livefeedPaused is true no call becomes the current call;
\* the calls received are kept in callQueue in arrival order, priority replies at the
\* head, none dropped by the pause; when the pause is lifted with no current call the
\* head of the queue starts playing.
C37_AsStated == [][NoCallWhilePaused /\ KeptInOrder /\ (Lifted => HeadStarts)]_vars

\* C37 (amended): the same, the head of the queue starting to play when the pause is
\* lifted with no current call and no delay of a skip pending.
C37_Paused ==
    [][NoCallWhilePaused /\ KeptInOrder /\ ((Lifted /\ ~player.skipDelay) => HeadStarts)]_vars

\* paused before any call was current, two calls received since wait in the queue
C37_Witness ==
    /\ player.livefeedPaused
    /\ player.livefeedMode = "online"
    /\ player.call = 0
    /\ player.callPrevious = 0
    /\ player.arrived = {1, 3}
    /\ player.callQueue = <<3, 1>>

(***************************************************************************)
(* Properties of the offline client, checked under SpecCalls.              *)
(***************************************************************************)
OfflineEmpty == livefeedMode = "offline" => callQueue = << >>

\* the step changes nothing of the client but what the handler downloaded
OnlyDownloads(id) ==
    /\ downloaded' = id
    /\ sent' = << >>
    /\ UNCHANGED <<config, livefeedMap, priorSys, priorTg, timers, callQueue, call,
                   callPrevious, livefeedMode, playbackList, playbackRefreshing,
                   playbackGoesLive, websocket>>

\* playback mode is entered from offline only
EnteredFromOffline ==
    (livefeedMode' = "playback" /\ livefeedMode # "playback") => livefeedMode = "offline"

\* C36 (as stated): whenever livefeedMode is offline the callQueue is empty; a CAL
\* received while offline is never queued or played, only a download flag has an
\* effect; playback mode is entered only from offline, never from online.
C36_AsStated ==
    /\ OfflineEmpty
    /\ [][/\ OfflineEmpty'
          /\ EnteredFromOffline
          /\ \A c \in ClientCalls, flag \in CallFlags :
                (ReceiveCall(c, flag) /\ livefeedMode = "offline") =>
                    /\ OnlyDownloads(IF flag = <<JsString("d")>> THEN c.id ELSE 0)
                    /\ playbackPending' = playbackPending]_vars

\* C36 (amended): the same, but the reply with flag p and the id of playbackPending
\* clears playbackPending while offline too.
C36_Offline ==
    /\ OfflineEmpty
    /\ [][/\ OfflineEmpty'
          /\ EnteredFromOffline
          /\ \A c \in ClientCalls, flag \in CallFlags :
                (ReceiveCall(c, flag) /\ livefeedMode = "offline") =>
                    /\ OnlyDownloads(IF flag = <<JsString("d")>> THEN c.id ELSE 0)
                    /\ playbackPending' =
                          IF flag = <<JsString("p")>> /\ IsPending(c) THEN 0
                          ELSE playbackPending]_vars

\* playback mode was left while a call played; a CAL with flag d that arrived since was
\* downloaded, and nothing is queued or playing
C36_Witness ==
    /\ livefeedMode = "offline"
    /\ downloaded = 2
    /\ callPrevious.id = 1
    /\ call = NoCall
    /\ callQueue = << >>
    /\ playbackPending = 0

(***************************************************************************)
(* Properties of the replies in playback mode, checked under SpecReplies   *)
(* and, for the progress of the walk, under SpecWalkFair.                  *)
(***************************************************************************)
\* the step runs playbackNextCall past its first test: a list arrives, or the audio of
\* the call ends, in playback mode with a list and with no call pending
Selecting ==
    \/ /\ ReceiveList \/ ReceiveEmptyList
       /\ livefeedMode = "playback" /\ call = NoCall /\ playbackPending = 0
    \/ /\ Ended
       /\ playbackList.set /\ playbackPending = 0

WithinPage(list, indices) == indices \subseteq 0..(Len(list.results) - 1)

\* C34 (as stated): handling an LCL reply in playback mode, playbackNextCall selects
\* only indices 0..results.length-1 of the page, for every reply, one with no results or
\* without the call played last included.
C34_AsStated ==
    [][Selecting => WithinPage(playbackList', Reads(playbackList', callPrevious'.id))]_vars

\* the call read within the page is the call that is requested
LoadsWhatItReads ==
    [][\A i \in 0..(StoreSize - 1) :
          (Selecting /\ i \in Reads(playbackList', callPrevious'.id)
                     /\ i < Len(playbackList'.results))
              => playbackPending' = playbackList'.results[i + 1]]_vars

\* the page of a search that found no call has been handled after the end of a call
ReadOutside ==
    /\ livefeedMode = "playback"
    /\ playbackList.set
    /\ playbackList.results = << >>
    /\ callPrevious # NoCall
    /\ call = NoCall
    /\ playbackPending = 0
    /\ sent = << >>

\* a page is requested: the LCL frame of the last handler awaits its reply
PageRequested == Len(sent) = 1 /\ IsLcl(sent[1])

\* playback mode with a call pending, or with nothing playing and nothing requested
Waiting ==
    /\ livefeedMode = "playback"
    /\ \/ playbackPending # 0
       \/ call = NoCall /\ ~PageRequested

\* C33 (as stated): provided the server answers every CAL and LCL request, the client
\* never stays in playback mode forever with playbackPending set or with nothing
\* playing and nothing requested: it plays a call, requests the next call or page, or
\* leaves playback mode.
C33_AsStated == []<>(~Waiting)

\* the call played last is the newest of the store and stands in the page
AtNewestEnd ==
    /\ callPrevious.id = StoreSize
    /\ FindIndex(playbackList.results, StoreSize) # 0

\* the frame of the search of the page at hand
SameSearch == Encode("LCL", JsOptions(playbackList.options), JsUndefined)

Frames(frame) == IF websocket = "open" THEN <<frame>> ELSE << >>

\* the same search is sent again and the client stays in playback mode
Refreshes ==
    /\ livefeedMode' = "playback"
    /\ playbackRefreshing'
    /\ sent' = Frames(SameSearch')

\* playback mode is left with an empty queue: for the livefeed, with the LFM frame of
\* the map, when config.playbackGoesLive is set, else for offline
Leaves ==
    /\ callQueue' = << >>
    /\ call' = NoCall
    /\ ~playbackRefreshing'
    /\ IF playbackGoesLive
       THEN /\ livefeedMode' = "online"
            /\ sent' = Frames(Encode("LFM", JsMap(livefeedMap), JsUndefined))
       ELSE /\ livefeedMode' = "offline"
            /\ sent' = << >>

\* C35: when the walk reaches the newest end of the list the client sends the same
\* search again, at most once in a playback session; when the end is reached again it
\* leaves playback mode with an empty callQueue, for offline, or for online with an LFM
\* frame sent when config.playbackGoesLive is set.
C35_OneRefresh ==
    [][/\ (Selecting /\ AtNewestEnd') => IF playbackRefreshing THEN Leaves ELSE Refreshes
       /\ (Selecting /\ playbackRefreshing) => sent' # <<SameSearch'>>
       /\ (playbackRefreshing /\ livefeedMode' = "playback") => playbackRefreshing'
       /\ livefeedMode' # "playback" => ~playbackRefreshing']_vars

\* the newest call has played and the same search has been sent again, once
C35_Witness ==
    /\ livefeedMode = "playback"
    /\ playbackRefreshing
    /\ AtNewestEnd
    /\ call = NoCall
    /\ playbackPending = 0
    /\ sent = <<SameSearch>>

\* playback mode has been left for the livefeed after the newest call
LeftForLivefeed ==
    /\ livefeedMode = "online"
    /\ playbackGoesLive
    /\ AtNewestEnd
    /\ call = NoCall
    /\ ~playbackRefreshing
    /\ sent = <<Encode("LFM", JsMap(livefeedMap), JsUndefined)>>

(***************************************************************************)
(* Properties of a migration that is not applied, checked under SpecDb.    *)
(***************************************************************************)
\* the call of migration m returns with its name not in Meta
Unrecorded(m) == Attempts(m) /\ m \notin store'.names

\* migrate() goes on after the call: to the next migration, or to seed()
GoesOn == pc' \in {"migrate", "seed"}

\* C38 (as stated): whenever migrateWithSchema returns without the name of the migration
\* recorded in Meta (the count query, Begin, a statement, the Meta insert or Commit
\* failed) it returns an error, so migrate() never goes on past a migration that is not
\* applied.
C38_AsStated ==
    [][\A m \in Migrations : Unrecorded(m) => (last'.err /\ ~GoesOn)]_vars

\* the same for the failures other than that of Begin
ReportsButBegin ==
    [][\A m \in Migrations :
          (Unrecorded(m) /\ last'.outcome # "beginFail") => (last'.err /\ ~GoesOn)]_vars

\* Begin failed for a migration: it is not in Meta, no error was returned and migrate()
\* has gone on to the next one
SkippedSilently ==
    /\ last.outcome = "beginFail"
    /\ ~last.err
    /\ last.m \notin store.names
    /\ pc = "migrate"
    /\ nextMig = last.m + 1

(***************************************************************************)
(* Properties of the migration of the legacy talkgroups and units, checked *)
(* under SpecDb.                                                           *)
(***************************************************************************)
\* the statement of the migration after which the legacy columns are gone: drop table
\* rdioScannerSystems for SQLite, drop column units for the other engines
DropsAt(type) == IF type = "sqlite" THEN 8 ELSE 3

\* the statements of the migration with one insert for every legacy row
WithInserts == SchemaLen(dbType, LegacyMigration) + store.legacy

\* the legacy columns are dropped by the step
Drops == store'.schema[LegacyMigration] >= DropsAt(dbType)

\* every legacy row is inserted by the step
Inserts == store'.schema[LegacyMigration] = WithInserts

\* the migration of the legacy rows is called and not recorded yet
Migrating == Attempts(LegacyMigration) /\ LegacyMigration \notin store.names

\* C39 (as stated): whenever migration 20220101070000 is recorded as applied every
\* talkgroup and unit of the legacy columns of rdioScannerSystems is a row of
\* rdioScannerTalkgroups or rdioScannerUnits; the legacy columns are never dropped
\* without those rows inserted in the same transaction, whatever step of reading the
\* legacy rows fails.
C39_AsStated ==
    [][Migrating =>
          /\ LegacyMigration \in store'.names => Inserts
          /\ Drops => Inserts]_vars

\* the same on the engines that keep schema statements inside the transaction, when
\* the query of the legacy rows does not fail
PreservesWhenRead ==
    [][(Migrating /\ ~ImplicitCommit(dbType)
                  /\ store'.schema[LegacyMigration] # SchemaLen(dbType, LegacyMigration)) =>
          /\ LegacyMigration \in store'.names => Inserts
          /\ Drops => Inserts]_vars

\* the migration is recorded and its statements are in effect on an engine that keeps
\* them in the transaction; the installation had a legacy row and no row was inserted
DroppedUnread ==
    /\ ~ImplicitCommit(dbType)
    /\ store.legacy > 0
    /\ LegacyMigration \in store.names
    /\ store.schema[LegacyMigration] = SchemaLen(dbType, LegacyMigration)
    /\ last.m = LegacyMigration
    /\ ~last.err

====
